---- MODULE Spec2Model ----
(***************************************************************************)
(* A model of app.py: the Flask route handlers of the plugin server and    *)
(* the plugin classes they dispatch to (EmailPlugin, StoryPlugin,          *)
(* WebSearchPlugin, SalesforcePlugin).                                     *)
(*                                                                         *)
(* One request is handled at a time.  A handler is one action: it reads    *)
(* the request, validates it, calls the plugin method, and produces the    *)
(* reply.  The external services (SMTP server, DuckDuckGo, OpenAI,         *)
(* Salesforce) are the environment: what each of their operations answers  *)
(* is drawn from a small set (the record env), and every operation a       *)
(* handler issues on them is appended to the event sequence calls.         *)
(*                                                                         *)
(* Python values are tagged records [t |-> type, v |-> value], so that     *)
(* None, "", 0 and {} stay distinct and truthiness is computed as Python   *)
(* computes it.  Exception texts are sequences of words, so that the       *)
(* substring tests of the code are tests for a contiguous run of words.    *)
(*                                                                         *)
(* Environment assumptions: leaving the `with smtplib.SMTP(...)` block     *)
(* closes the connection and raises nothing itself; every exception an     *)
(* external library raises is an Exception whose text is not empty.        *)
(*                                                                         *)
(* The OAuth exchange flow (/crm/authorize, /crm/callback) is not part of  *)
(* app.py; it is modelled from section 4.5 of the specification, under a   *)
(* specification of its own (OAuthSpec).  There the requests of different  *)
(* callers interleave, a callback being two steps around the token         *)
(* exchange, while one caller's requests follow one another.               *)
(***************************************************************************)
EXTENDS Integers, Sequences, FiniteSets, TLC

VARIABLES
    pc,             \* "idle": waiting for a request; "done": a reply is ready
    request,        \* the request being answered: [endpoint, data]
    env,            \* what the external services answer during this request
    reply,          \* [status, body] of the HTTP response
    calls,          \* the operations issued on external services, in order
    invoked,        \* the plugin methods invoked: <<[method, args, result]>>
    caught,         \* TRUE iff the handler's `except Exception` clause answered
    unhandled,      \* TRUE iff an exception left the route handler
    avail,          \* OPENAI_AVAILABLE, DDGS_AVAILABLE, SALESFORCE_AVAILABLE
    email_plugin,   \* the EmailPlugin singleton (fields read from os.environ)
    logs,           \* the records salesforce_test_connection wrote to the log
                    \* (the records of the other handlers are not modelled)
    session,        \* the OAuth session store: the pending authorizations
    inflight,       \* per caller, the callback waiting for the token endpoint
    views,          \* the responses of the OAuth endpoints, in order
    exchanges       \* the token-exchange requests sent to the provider, in order

appvars == <<pc, request, env, reply, calls, invoked, caught, unhandled, avail, email_plugin,
             logs>>
oauthvars == <<session, inflight, views, exchanges>>
vars == <<pc, request, env, reply, calls, invoked, caught, unhandled, avail, email_plugin,
          logs, session, inflight, views, exchanges>>

-----------------------------------------------------------------------------
(* Python values *)

None == [t |-> "none", v |-> 0]
Str(s) == [t |-> "str", v |-> s]
Num(n) == [t |-> "int", v |-> n]
Bool(b) == [t |-> "bool", v |-> b]
Dict(d) == [t |-> "dict", v |-> d]
List(l) == [t |-> "list", v |-> l]

EmptyDict == [k \in {} |-> None]

\* bool(x)
Truthy(x) ==
    CASE x.t = "none" -> FALSE
      [] x.t = "str"  -> x.v # ""
      [] x.t = "int"  -> x.v # 0
      [] x.t = "bool" -> x.v
      [] x.t = "dict" -> DOMAIN x.v # {}
      [] x.t = "list" -> Len(x.v) # 0

\* d.get(k) and d.get(k, default) on a dict d
DictGet(d, k) == IF k \in DOMAIN d.v THEN d.v[k] ELSE None
DictGetOr(d, k, default) == IF k \in DOMAIN d.v THEN d.v[k] ELSE default

\* str(x), as an f-string formats x
PyStr(x) ==
    CASE x.t = "none" -> "None"
      [] x.t = "str"  -> x.v
      [] x.t = "int"  -> (CASE x.v = 0 -> "0" [] x.v = 587 -> "587" [] OTHER -> "<int>")
      [] x.t = "bool" -> (IF x.v THEN "True" ELSE "False")
      [] OTHER        -> "<object>"

\* an exception: its class and the words of str(e)
Exc(type, msg) == [type |-> type, msg |-> msg]

RECURSIVE Join(_)
\* str(e): the words of the message joined by blanks
Join(words) ==
    IF Len(words) = 0 THEN ""
    ELSE IF Len(words) = 1 THEN words[1]
    ELSE words[1] \o " " \o Join(Tail(words))

\* str.lower() of one word
LowerWord(w) ==
    CASE w = "Authentication" -> "authentication"
      [] w = "AUTHENTICATION" -> "authentication"
      [] w = "Failed"         -> "failed"
      [] w = "FAILED"         -> "failed"
      [] w = "Model"          -> "model"
      [] w = "Invalid"        -> "invalid"
      [] w = "Not"            -> "not"
      [] w = "Found"          -> "found"
      [] OTHER                -> w

Lower(words) == [i \in 1..Len(words) |-> LowerWord(words[i])]

\* `needle in str(e)`: needle occurs as a contiguous run of words
Contains(words, needle) ==
    \E i \in 1..(Len(words) - Len(needle) + 1) :
        \A j \in 1..Len(needle) : words[i + j - 1] = needle[j]

-----------------------------------------------------------------------------
(* The environment: the answer of one external operation *)

Ok == [ok |-> TRUE, exc |-> Exc("", <<>>)]
Raises(type, msg) == [ok |-> FALSE, exc |-> Exc(type, msg)]

\* an operation issued on an external service
Event(op, ok, args) == [op |-> op, ok |-> ok, args |-> args]

\* what a plugin method or a handler body ends with: a returned value or a
\* raised exception, and the operations it issued
Return(val, cs) == [raised |-> FALSE, val |-> val, exc |-> Exc("", <<>>), calls |-> cs]
Raise(e, cs) == [raised |-> TRUE, val |-> [success |-> FALSE], exc |-> e, calls |-> cs]

\* int(x)
PyInt(x) ==
    CASE x.t = "int"                 -> [ok |-> TRUE, v |-> x.v, exc |-> Exc("", <<>>)]
      [] x.t = "bool"                -> [ok |-> TRUE, v |-> IF x.v THEN 1 ELSE 0, exc |-> Exc("", <<>>)]
      [] x.t = "str" /\ x.v = "587"  -> [ok |-> TRUE, v |-> 587, exc |-> Exc("", <<>>)]
      [] x.t = "str" /\ x.v = "0"    -> [ok |-> TRUE, v |-> 0, exc |-> Exc("", <<>>)]
      [] x.t = "str"                 ->
            [ok |-> FALSE, v |-> 0,
             exc |-> Exc("ValueError", <<"invalid literal for int() with base 10:", x.v>>)]
      [] OTHER                       ->
            [ok |-> FALSE, v |-> 0,
             exc |-> Exc("TypeError", <<"int() argument must be a string or a number">>)]

-----------------------------------------------------------------------------
(* EmailPlugin *)

\* EmailPlugin.__init__: the fields are read from the process environment
EmailPlugin(server, port, username, password) ==
    [smtp_server |-> server, smtp_port |-> port, smtp_username |-> username,
     smtp_password |-> password, from_email |-> username]

\* send_email, the choice of credentials: the ones of smtp_config when it is
\* truthy, the plugin's own otherwise
EmailCredentials(self, smtp_config) ==
    IF Truthy(smtp_config) THEN
        LET port == PyInt(DictGetOr(smtp_config, "smtp_port", Num(587)))
            username == DictGet(smtp_config, "smtp_username")
        IN  [raised |-> ~port.ok, exc |-> port.exc,
             server |-> DictGet(smtp_config, "smtp_server"),
             port |-> Num(port.v),
             username |-> username,
             password |-> DictGet(smtp_config, "smtp_password"),
             from_email |-> DictGetOr(smtp_config, "from_email", username)]
    ELSE
        [raised |-> FALSE, exc |-> Exc("", <<>>),
         server |-> self.smtp_server, port |-> self.smtp_port,
         username |-> self.smtp_username, password |-> self.smtp_password,
         from_email |-> self.from_email]

\* send_email, the test of the credentials
CredentialsMissing(cred) ==
    \/ ~Truthy(cred.server)
    \/ ~Truthy(cred.port)
    \/ ~Truthy(cred.username)
    \/ ~Truthy(cred.password)

\* a variant of MfaIndicated that compares 'authentication failed' as written
MfaIndicatedCaseSensitive(msg) ==
    \/ Contains(msg, <<"535">>)
    \/ Contains(msg, <<"534">>)
    \/ Contains(msg, <<"authentication", "failed">>)

\* send_email, the test of the text of a rejected login
MfaIndicated(msg) ==
    \/ Contains(msg, <<"535">>)
    \/ Contains(msg, <<"534">>)
    \/ Contains(Lower(msg), <<"authentication", "failed">>)

MfaText == "SMTP Authentication failed. If your account has Multi-Factor Authentication (MFA) enabled, you must use an App Password instead of your regular password. Please generate an App Password from your email provider settings."

HelpfulLinks ==
    [gmail |-> "https://myaccount.google.com/apppasswords",
     microsoft |-> "https://account.microsoft.com/security",
     yahoo |-> "https://login.yahoo.com/account/security"]

\* leaving the with block closes the connection
CloseEvent == Event("close", TRUE, <<>>)

\* a variant of SmtpSession that sends the message whatever login answered
SmtpSessionIgnoresLogin(cred, to_email, e) ==
    LET c1 == <<Event("connect", e.connect.ok, <<cred.server, cred.port>>)>>
        c2 == Append(c1, Event("starttls", e.starttls.ok, <<>>))
        c3 == Append(c2, Event("login", e.login.ok, <<cred.username, cred.password>>))
        c4 == Append(c3, Event("send_message", e.send_message.ok, <<to_email>>))
    IN  IF ~e.connect.ok THEN Raise(e.connect.exc, c1)
        ELSE IF ~e.starttls.ok THEN Raise(e.starttls.exc, Append(c2, CloseEvent))
        ELSE IF ~e.send_message.ok THEN Raise(e.send_message.exc, Append(c4, CloseEvent))
        ELSE Return([success |-> TRUE,
                     message |-> "Email sent successfully to " \o PyStr(to_email)],
                    Append(c4, CloseEvent))

\* send_email, the with block: connect, starttls, login, send_message
SmtpSession(cred, to_email, e) ==
    LET c1 == <<Event("connect", e.connect.ok, <<cred.server, cred.port>>)>>
        c2 == Append(c1, Event("starttls", e.starttls.ok, <<>>))
        c3 == Append(c2, Event("login", e.login.ok, <<cred.username, cred.password>>))
        c4 == Append(c3, Event("send_message", e.send_message.ok, <<to_email>>))
    IN  IF ~e.connect.ok THEN Raise(e.connect.exc, c1)
        ELSE IF ~e.starttls.ok THEN Raise(e.starttls.exc, Append(c2, CloseEvent))
        ELSE IF ~e.login.ok THEN
            IF e.login.exc.type = "SMTPAuthenticationError" /\ MfaIndicated(e.login.exc.msg)
            THEN Return([success |-> FALSE, error |-> MfaText, error_code |-> "AUTH_FAILED",
                         helpful_links |-> HelpfulLinks],
                        Append(c3, CloseEvent))
            ELSE Raise(e.login.exc, Append(c3, CloseEvent))
        ELSE IF ~e.send_message.ok THEN Raise(e.send_message.exc, Append(c4, CloseEvent))
        ELSE Return([success |-> TRUE,
                     message |-> "Email sent successfully to " \o PyStr(to_email)],
                    Append(c4, CloseEvent))

\* a variant of EmailExcept that reports an SMTP failure without its text
EmailExceptSilent(exc) ==
    CASE exc.type = "SMTPAuthenticationError" ->
            [success |-> FALSE,
             error |-> "SMTP Authentication failed. Please check your credentials. If MFA is enabled, use an App Password.",
             error_code |-> "AUTH_FAILED"]
      [] exc.type = "SMTPException" ->
            [success |-> FALSE, error |-> ""]
      [] OTHER ->
            [success |-> FALSE, error |-> Join(exc.msg)]

\* send_email, the except clauses
EmailExcept(exc) ==
    CASE exc.type = "SMTPAuthenticationError" ->
            [success |-> FALSE,
             error |-> "SMTP Authentication failed. Please check your credentials. If MFA is enabled, use an App Password.",
             error_code |-> "AUTH_FAILED"]
      [] exc.type = "SMTPException" ->
            [success |-> FALSE, error |-> "SMTP error: " \o Join(exc.msg)]
      [] OTHER ->
            [success |-> FALSE, error |-> Join(exc.msg)]

\* EmailPlugin.send_email
EmailPlugin_send_email(self, to_email, subject, body, smtp_config, is_html, e) ==
    LET cred == EmailCredentials(self, smtp_config) IN
    IF cred.raised THEN Return(EmailExcept(cred.exc), <<>>)
    ELSE IF CredentialsMissing(cred)
    THEN Return([success |-> FALSE, error |-> "SMTP credentials not provided"], <<>>)
    ELSE LET s == SmtpSession(cred, to_email, e) IN
         IF s.raised THEN Return(EmailExcept(s.exc), s.calls) ELSE s

-----------------------------------------------------------------------------
(* WebSearchPlugin *)

\* the module-level flags set when the optional packages are imported
Avail(openai, ddgs, salesforce) == [openai |-> openai, ddgs |-> ddgs, salesforce |-> salesforce]

TracebackText == "Traceback (most recent call last): ..."

ZeroResultsText == "DuckDuckGo search returned zero results. This is likely due to:\n1. Rate limiting or IP blocking on Heroku\n2. DuckDuckGo blocking automated requests\n3. Network restrictions\n\nConsider using a different search provider or running locally."

\* a variant of FormatResult that ranks every result first and swaps url and
\* snippet
FormatResultUnranked(result, result_count) ==
    [title |-> result.title, url |-> result.body, snippet |-> result.href, rank |-> 1]

\* search, one normalized result
FormatResult(result, result_count) ==
    [title |-> result.title, url |-> result.href, snippet |-> result.body,
     rank |-> result_count]

RECURSIVE SearchLoop(_, _, _, _)
\* search, `for result in results`: items are the results the provider still
\* yields; the loop ends when they are exhausted, when the provider raises
\* (the exception is caught and logged), when result_count >= max_results, or
\* when that comparison raises (max_results is no number)
SearchLoop(items, max_results, result_count, formatted_results) ==
    IF items = <<>> THEN [formatted_results |-> formatted_results, result_count |-> result_count]
    ELSE LET n == result_count + 1
             f == Append(formatted_results, FormatResult(Head(items), n))
         IN  IF max_results.t # "int" THEN [formatted_results |-> f, result_count |-> n]
             ELSE IF n >= max_results.v THEN [formatted_results |-> f, result_count |-> n]
             ELSE SearchLoop(Tail(items), max_results, n, f)

\* a variant of SearchProvider without the test for an empty result list
SearchProviderNoEmptyTest(query, max_results, region, e) ==
    LET c1 == <<Event("ddgs", e.ddgs.ok, <<>>)>>
        c2 == Append(c1, Event("ddgs_text", e.ddgs_text.ok, <<query, max_results, region>>))
        loop == SearchLoop(e.ddgs_text.items, max_results, 0, <<>>)
        c3 == Append(c2, Event("consumed", TRUE, <<loop.result_count>>))
    IN  IF ~e.ddgs.ok THEN Raise(e.ddgs.exc, c1)
        ELSE IF ~e.ddgs_text.ok THEN Raise(e.ddgs_text.exc, c2)
        ELSE Return([success |-> TRUE, query |-> query, results |-> loop.formatted_results,
                     count |-> Len(loop.formatted_results)],
                    c3)

\* a variant of SearchProvider that lets an error of the stream reach the
\* caller
SearchProviderStreamErrorEscapes(query, max_results, region, e) ==
    LET c1 == <<Event("ddgs", e.ddgs.ok, <<>>)>>
        c2 == Append(c1, Event("ddgs_text", e.ddgs_text.ok, <<query, max_results, region>>))
        loop == SearchLoop(e.ddgs_text.items, max_results, 0, <<>>)
        c3 == Append(c2, Event("consumed", TRUE, <<loop.result_count>>))
    IN  IF ~e.ddgs.ok THEN Raise(e.ddgs.exc, c1)
        ELSE IF ~e.ddgs_text.ok THEN Raise(e.ddgs_text.exc, c2)
        ELSE IF e.ddgs_text.fails
        THEN Raise(Exc("DuckDuckGoSearchException", <<"202", "Ratelimit">>), c3)
        ELSE IF Len(loop.formatted_results) = 0
        THEN Return([success |-> FALSE, query |-> query, results |-> <<>>, count |-> 0,
                     error |-> ZeroResultsText,
                     debug |-> [raw_result_count |-> loop.result_count, query |-> query]],
                    c3)
        ELSE Return([success |-> TRUE, query |-> query, results |-> loop.formatted_results,
                     count |-> Len(loop.formatted_results)],
                    c3)

\* search, the inner try block: DDGS(), ddgs.text(...), the loop, the result
SearchProvider(query, max_results, region, e) ==
    LET c1 == <<Event("ddgs", e.ddgs.ok, <<>>)>>
        c2 == Append(c1, Event("ddgs_text", e.ddgs_text.ok, <<query, max_results, region>>))
        loop == SearchLoop(e.ddgs_text.items, max_results, 0, <<>>)
        c3 == Append(c2, Event("consumed", TRUE, <<loop.result_count>>))
    IN  IF ~e.ddgs.ok THEN Raise(e.ddgs.exc, c1)
        ELSE IF ~e.ddgs_text.ok THEN Raise(e.ddgs_text.exc, c2)
        ELSE IF Len(loop.formatted_results) = 0
        THEN Return([success |-> FALSE, query |-> query, results |-> <<>>, count |-> 0,
                     error |-> ZeroResultsText,
                     debug |-> [raw_result_count |-> loop.result_count, query |-> query]],
                    c3)
        ELSE Return([success |-> TRUE, query |-> query, results |-> loop.formatted_results,
                     count |-> Len(loop.formatted_results)],
                    c3)

\* WebSearchPlugin.search
WebSearchPlugin_search(flags, query, max_results, region, e) ==
    IF ~flags.ddgs
    THEN Return([success |-> FALSE,
                 error |-> "DuckDuckGo search not available. Please ensure duckduckgo-search package is installed."],
                <<>>)
    ELSE IF ~Truthy(query)
    THEN Return([success |-> FALSE, error |-> "Search query is required"], <<>>)
    ELSE LET s == SearchProvider(query, max_results, region, e) IN
         IF s.raised
         THEN Return([success |-> FALSE,
                      error |-> "Search failed: " \o Join(s.exc.msg) \o ". DuckDuckGo may be blocking requests from Heroku. Consider using a different search provider.",
                      debug |-> [error_type |-> s.exc.type, traceback |-> TracebackText]],
                     s.calls)
         ELSE s

RECURSIVE SummaryContextWithoutUrls(_, _)
\* a variant of SummaryContext that lists the results last first and leaves
\* their urls out
SummaryContextWithoutUrls(results, i) ==
    IF i > Len(results) THEN <<>>
    ELSE SummaryContextWithoutUrls(results, i + 1)
         \o <<"Source", i, results[i].title, "URL:", "", "Content:", results[i].snippet>>

RECURSIVE SummaryContext(_, _)
\* search_and_summarize, the context: a text is the sequence of its pieces
SummaryContext(results, i) ==
    IF i > Len(results) THEN <<>>
    ELSE <<"Source", i, results[i].title, "URL:", results[i].url,
           "Content:", results[i].snippet>> \o SummaryContext(results, i + 1)

SummarySystemPrompt == "You are a helpful assistant that summarizes web search results to answer questions clearly and accurately."

\* search_and_summarize, the user prompt
SummaryPrompt(query, results, focus) ==
    <<"Question:", PyStr(query), "Search Results:", "Web search results for:", PyStr(query)>>
    \o SummaryContext(results, 1)
    \o (IF Truthy(focus) THEN <<"Focus on:", PyStr(focus)>> ELSE <<>>)

SummaryTemperature == 7
SummaryMaxTokens == 1000

\* search_and_summarize, after the search: the client and the generation
Summarize(query, search_result, focus, api_key, model, e, cs) ==
    LET c1 == Append(cs, Event("openai_client", e.openai_client.ok, <<api_key>>))
        prompt == SummaryPrompt(query, search_result.results, focus)
        c2 == Append(c1, Event("chat_create", e.chat_create.ok,
                               <<model, SummarySystemPrompt, prompt,
                                 SummaryTemperature, SummaryMaxTokens>>))
    IN  IF ~e.openai_client.ok THEN Raise(e.openai_client.exc, c1)
        ELSE IF ~e.chat_create.ok THEN Raise(e.chat_create.exc, c2)
        ELSE Return([success |-> TRUE, query |-> query,
                     search_results |-> search_result.results,
                     summary |-> e.chat_create.content,
                     sources_count |-> Len(search_result.results)],
                    c2)

\* a variant of search_and_summarize that summarizes whenever the search
\* result carries a list of results, empty or not
SummarizeWithoutResults(flags, query, api_key, max_results, focus, model, e) ==
    IF ~flags.ddgs
    THEN Return([success |-> FALSE,
                 error |-> "DuckDuckGo search not available. Please ensure duckduckgo-search package is installed."],
                <<>>)
    ELSE IF ~flags.openai
    THEN Return([success |-> FALSE,
                 error |-> "OpenAI package not available. Please ensure openai package is installed."],
                <<>>)
    ELSE IF ~Truthy(api_key)
    THEN Return([success |-> FALSE, error |-> "OpenAI API key not provided for summarization"], <<>>)
    ELSE LET search == WebSearchPlugin_search(flags, query, max_results, Str("us-en"), e)
             search_result == search.val
         IN  IF "results" \notin DOMAIN search_result THEN search
             ELSE LET g == Summarize(query, search_result, focus, api_key, model, e, search.calls)
                  IN  IF g.raised
                      THEN Return([success |-> FALSE, error |-> Join(g.exc.msg)], g.calls)
                      ELSE g

\* WebSearchPlugin.search_and_summarize
WebSearchPlugin_search_and_summarize(flags, query, api_key, max_results, focus, model, e) ==
    IF ~flags.ddgs
    THEN Return([success |-> FALSE,
                 error |-> "DuckDuckGo search not available. Please ensure duckduckgo-search package is installed."],
                <<>>)
    ELSE IF ~flags.openai
    THEN Return([success |-> FALSE,
                 error |-> "OpenAI package not available. Please ensure openai package is installed."],
                <<>>)
    ELSE IF ~Truthy(api_key)
    THEN Return([success |-> FALSE, error |-> "OpenAI API key not provided for summarization"], <<>>)
    ELSE LET search == WebSearchPlugin_search(flags, query, max_results, Str("us-en"), e)
             search_result == search.val
         IN  IF ~search_result.success THEN search
             ELSE IF Len(search_result.results) = 0
             THEN Return([success |-> FALSE,
                          error |-> "No search results found. Cannot generate summary without search results. Try a different query or check your search terms.",
                          debug |-> EmptyDict],
                         search.calls)
             ELSE LET g == Summarize(query, search_result, focus, api_key, model, e, search.calls)
                  IN  IF g.raised
                      THEN Return([success |-> FALSE, error |-> Join(g.exc.msg)], g.calls)
                      ELSE g

-----------------------------------------------------------------------------
(* StoryPlugin *)

\* temperatures are counted in tenths: 8 is 0.8
StoryTemperature == 8
ImproveTemperature == 7
ShortMaxTokens == 2000
MediumMaxTokens == 3000
LongMaxTokens == 4000
ImproveMaxTokens == 4000

\* `2000 if length == "short" else 3000 if length == "medium" else 4000`
MaxTokens(length) ==
    IF length = Str("short") THEN ShortMaxTokens
    ELSE IF length = Str("medium") THEN MediumMaxTokens
    ELSE LongMaxTokens

\* the text of the first content item of type output_text; story when there is none
FirstOutputText(content, story) ==
    LET hits == {i \in 1..Len(content.v) : content.v[i].type = "output_text"}
    IN  IF hits = {} THEN story
        ELSE Str(content.v[CHOOSE i \in hits : \A j \in hits : i <= j].text)

\* `for content_item in content` when content is None
NotIterable == Exc("TypeError", <<"'NoneType'", "object", "is", "not", "iterable">>)

RECURSIVE ExtractLoop(_, _)
\* `for item in response.input`: the output text of each assistant item is
\* taken in turn and the loop ends at the first that is not empty; an
\* assistant item whose content is None raises a TypeError
ExtractLoop(items, story) ==
    IF items = <<>> THEN Return(story, <<>>)
    ELSE IF Head(items).role # "assistant" THEN ExtractLoop(Tail(items), story)
    ELSE IF Head(items).content.t # "list" THEN Raise(NotIterable, <<>>)
    ELSE LET s1 == FirstOutputText(Head(items).content, story)
         IN  IF Truthy(s1) THEN Return(s1, <<>>) ELSE ExtractLoop(Tail(items), s1)

ResponseDump == "Response(id='resp_1', ...)"

\* the text extracted from the answer of responses.create
ExtractText(response) ==
    LET \* `if not story: story = str(response)`
        OrDump(x) == IF x.raised THEN x
                     ELSE IF Truthy(x.val) THEN x
                     ELSE Return(Str(ResponseDump), <<>>)
    IN  OrDump(IF response.has_input /\ Len(response.input) # 0
               THEN ExtractLoop(response.input, None)
               ELSE Return(None, <<>>))

\* client.chat.completions.create(...) and `response.choices[0].message.content`
ChatCompletion(model, system_prompt, user_prompt, temperature, max_tokens, e, cs) ==
    LET c == Append(cs, Event("chat_create", e.chat_create.ok,
                              <<model, system_prompt, user_prompt, temperature, max_tokens>>))
    IN  IF ~e.chat_create.ok THEN Raise(e.chat_create.exc, c)
        ELSE Return(e.chat_create.content, c)

\* the generation of write_story, continue_story and improve_story: the
\* responses API for gpt-5-nano, chat completions otherwise and when the
\* responses API is missing or raises an AttributeError
Generate(model, system_prompt, user_prompt, temperature, max_tokens, e, cs) ==
    LET c == Append(cs, Event("responses_create", e.responses_create.ok,
                              <<model, system_prompt, user_prompt>>))
    IN  IF model # Str("gpt-5-nano")
        THEN ChatCompletion(model, system_prompt, user_prompt, temperature, max_tokens, e, cs)
        ELSE IF ~e.openai_client.has_responses
        THEN ChatCompletion(model, system_prompt, user_prompt, temperature, max_tokens, e, cs)
        ELSE IF ~e.responses_create.ok
        THEN IF e.responses_create.exc.type = "AttributeError"
             THEN ChatCompletion(model, system_prompt, user_prompt, temperature, max_tokens, e, c)
             ELSE Raise(e.responses_create.exc, c)
        ELSE LET \* `except AttributeError` around the extraction
                 Extracted(x) ==
                     IF ~x.raised THEN Return(x.val, c)
                     ELSE IF x.exc.type = "AttributeError"
                     THEN ChatCompletion(model, system_prompt, user_prompt, temperature,
                                         max_tokens, e, c)
                     ELSE Raise(x.exc, c)
             IN  Extracted(ExtractText(e.responses_create.response))

\* `except Exception as api_error`: an unknown model is reported as such
InvalidModelError(exc) ==
    /\ Contains(Lower(exc.msg), <<"model">>)
    /\ \/ Contains(Lower(exc.msg), <<"not", "found">>)
       \/ Contains(Lower(exc.msg), <<"invalid">>)

\* a variant of StoryCall without the outer except clause: what the inner
\* clause raises again leaves the method
StoryCallReraises(flags, api_key, model, system_prompt, user_prompt, temperature, max_tokens, e) ==
    LET c1 == <<Event("openai_client", e.openai_client.ok, <<api_key>>)>>
        g == Generate(model, system_prompt, user_prompt, temperature, max_tokens, e, c1)
    IN  IF ~flags.openai
        THEN Return([success |-> FALSE,
                     error |-> "OpenAI package not available. Please ensure openai package is installed."],
                    <<>>)
        ELSE IF ~Truthy(api_key)
        THEN Return([success |-> FALSE, error |-> "OpenAI API key not provided"], <<>>)
        ELSE IF ~e.openai_client.ok
        THEN Return([success |-> FALSE, error |-> Join(e.openai_client.exc.msg)], c1)
        ELSE IF g.raised /\ InvalidModelError(g.exc)
        THEN Return([success |-> FALSE,
                     error |-> "Invalid model \"" \o PyStr(model) \o "\". Error: " \o Join(g.exc.msg)],
                    g.calls)
        ELSE IF g.raised THEN g
        ELSE Return([success |-> TRUE, text |-> g.val], g.calls)

\* the frame the three methods share: the availability and key checks, the
\* client, the generation, the except clauses; text is the generated text
StoryCall(flags, api_key, model, system_prompt, user_prompt, temperature, max_tokens, e) ==
    LET c1 == <<Event("openai_client", e.openai_client.ok, <<api_key>>)>>
        \* the except clauses around the generation g
        Except(g) ==
            IF g.raised /\ InvalidModelError(g.exc)
            THEN Return([success |-> FALSE,
                         error |-> "Invalid model \"" \o PyStr(model) \o "\". Error: " \o Join(g.exc.msg)],
                        g.calls)
            ELSE IF g.raised
            THEN Return([success |-> FALSE, error |-> Join(g.exc.msg)], g.calls)
            ELSE Return([success |-> TRUE, text |-> g.val], g.calls)
    IN  IF ~flags.openai
        THEN Return([success |-> FALSE,
                     error |-> "OpenAI package not available. Please ensure openai package is installed."],
                    <<>>)
        ELSE IF ~Truthy(api_key)
        THEN Return([success |-> FALSE, error |-> "OpenAI API key not provided"], <<>>)
        ELSE IF ~e.openai_client.ok
        THEN Return([success |-> FALSE, error |-> Join(e.openai_client.exc.msg)], c1)
        ELSE Except(Generate(model, system_prompt, user_prompt, temperature, max_tokens, e, c1))

WriteSystemPrompt == "You are a creative writing assistant. Write engaging, well-structured stories based on user prompts."

\* write_story, the user prompt
WritePrompt(prompt, genre, length, tone) ==
    <<PyStr(prompt)>>
    \o (IF Truthy(genre) THEN <<"Genre:", PyStr(genre)>> ELSE <<>>)
    \o (IF Truthy(length)
        THEN <<"Length:", PyStr(length),
               IF length = Str("short") THEN "500-800 words"
               ELSE IF length = Str("medium") THEN "1000-1500 words" ELSE "2000+ words">>
        ELSE <<>>)
    \o (IF Truthy(tone) THEN <<"Tone:", PyStr(tone)>> ELSE <<>>)

\* StoryPlugin.write_story
StoryPlugin_write_story(flags, prompt, api_key, genre, length, tone, model, e) ==
    LET Named(r) ==
            IF r.val.success
            THEN Return([success |-> TRUE, story |-> r.val.text, length |-> length,
                         model |-> model],
                        r.calls)
            ELSE r
    IN  Named(StoryCall(flags, api_key, model, WriteSystemPrompt,
                        WritePrompt(prompt, genre, length, tone),
                        StoryTemperature, MaxTokens(length), e))

ContinueSystemPrompt == "You are a creative writing assistant. Continue stories seamlessly, maintaining style, tone, and character consistency."

\* continue_story, the user prompt
ContinuePrompt(story, direction, length) ==
    <<"Continue this story:", PyStr(story)>>
    \o (IF Truthy(direction) THEN <<"Direction:", PyStr(direction)>> ELSE <<>>)
    \o (IF Truthy(length) THEN <<"Length:", PyStr(length)>> ELSE <<>>)

\* StoryPlugin.continue_story
StoryPlugin_continue_story(flags, story, api_key, direction, length, model, e) ==
    LET Named(r) ==
            IF ~r.val.success THEN r
            ELSE IF story.t # "str" \/ r.val.text.t # "str"
            THEN Return([success |-> FALSE, error |-> "can only concatenate str to str"],
                        r.calls)
            ELSE Return([success |-> TRUE, continuation |-> r.val.text,
                         full_story |-> Str(story.v \o "\n\n" \o r.val.text.v)],
                        r.calls)
    IN  Named(StoryCall(flags, api_key, model, ContinueSystemPrompt,
                        ContinuePrompt(story, direction, length),
                        StoryTemperature, MaxTokens(length), e))

ImproveSystemPrompt == "You are an expert editor and writing coach. Improve stories by enhancing descriptions, dialogue, pacing, and overall writing quality while maintaining the original plot and characters."

\* improve_story, the user prompt
ImprovePrompt(story, focus, style) ==
    <<"Improve this story:", PyStr(story)>>
    \o (IF Truthy(focus) THEN <<"Focus on:", PyStr(focus)>> ELSE <<>>)
    \o (IF Truthy(style) THEN <<"Style:", PyStr(style)>> ELSE <<>>)

\* StoryPlugin.improve_story
StoryPlugin_improve_story(flags, story, api_key, focus, style, model, e) ==
    LET Named(r) ==
            IF r.val.success
            THEN Return([success |-> TRUE, improved_story |-> r.val.text], r.calls)
            ELSE r
    IN  Named(StoryCall(flags, api_key, model, ImproveSystemPrompt,
                        ImprovePrompt(story, focus, style),
                        ImproveTemperature, ImproveMaxTokens, e))

-----------------------------------------------------------------------------
(* SalesforcePlugin *)

SalesforceUnavailable ==
    [success |-> FALSE,
     error |-> "Salesforce package not available. Please ensure simple-salesforce package is installed."]

\* the keyword arguments of Salesforce(...) built from sf_config
SfKwargs(sf_config) ==
    [username |-> DictGet(sf_config, "username"),
     password |-> DictGet(sf_config, "password"),
     domain |-> DictGetOr(sf_config, "domain", Str("login"))]
    @@ (IF Truthy(DictGet(sf_config, "security_token"))
        THEN [security_token |-> DictGet(sf_config, "security_token")]
        ELSE EmptyDict)
    @@ (IF Truthy(DictGet(sf_config, "client_id")) /\ Truthy(DictGet(sf_config, "client_secret"))
        THEN [consumer_key |-> DictGet(sf_config, "client_id"),
              consumer_secret |-> DictGet(sf_config, "client_secret")]
        ELSE EmptyDict)

\* `try: ... sf = Salesforce(**sf_kwargs) except Exception as conn_error`
SalesforceConnect(sf_config, e) ==
    LET c == <<Event("salesforce", e.salesforce.ok, <<SfKwargs(sf_config)>>)>>
    IN  IF sf_config.t # "dict"
        THEN Return([success |-> FALSE,
                     error |-> "Failed to connect to Salesforce: object has no attribute 'get'"],
                    <<>>)
        ELSE IF ~e.salesforce.ok
        THEN Return([success |-> FALSE,
                     error |-> "Failed to connect to Salesforce: " \o Join(e.salesforce.exc.msg)],
                    c)
        ELSE Return([success |-> TRUE], c)

\* a variant of SalesforcePlugin.query that reports every result as complete
SalesforcePlugin_query_complete(flags, soql, sf_config, e) ==
    LET conn == SalesforceConnect(sf_config, e)
        c == Append(conn.calls, Event("sf_query", e.sf_query.ok, <<soql>>))
        results == e.sf_query.result
    IN  IF ~flags.salesforce THEN Return(SalesforceUnavailable, <<>>)
        ELSE IF ~Truthy(soql)
        THEN Return([success |-> FALSE, error |-> "SOQL query is required"], <<>>)
        ELSE IF ~conn.val.success THEN conn
        ELSE IF ~e.sf_query.ok
        THEN Return([success |-> FALSE, error |-> "Query failed: " \o Join(e.sf_query.exc.msg),
                     soql |-> soql], c)
        ELSE Return([success |-> TRUE, soql |-> soql,
                     records |-> DictGetOr(results, "records", List(<<>>)),
                     total_size |-> DictGetOr(results, "totalSize", Num(0)),
                     done |-> Bool(TRUE)], c)

\* SalesforcePlugin.query
SalesforcePlugin_query(flags, soql, sf_config, e) ==
    LET conn == SalesforceConnect(sf_config, e)
        c == Append(conn.calls, Event("sf_query", e.sf_query.ok, <<soql>>))
        results == e.sf_query.result
    IN  IF ~flags.salesforce THEN Return(SalesforceUnavailable, <<>>)
        ELSE IF ~Truthy(soql)
        THEN Return([success |-> FALSE, error |-> "SOQL query is required"], <<>>)
        ELSE IF ~conn.val.success THEN conn
        ELSE IF ~e.sf_query.ok
        THEN Return([success |-> FALSE, error |-> "Query failed: " \o Join(e.sf_query.exc.msg),
                     soql |-> soql], c)
        ELSE Return([success |-> TRUE, soql |-> soql,
                     records |-> DictGetOr(results, "records", List(<<>>)),
                     total_size |-> DictGetOr(results, "totalSize", Num(0)),
                     done |-> DictGetOr(results, "done", Bool(TRUE))], c)

\* SalesforcePlugin.create_record
SalesforcePlugin_create_record(flags, object_type, fields, sf_config, e) ==
    LET conn == SalesforceConnect(sf_config, e)
        c == Append(conn.calls, Event("sf_create", e.sf_create.ok, <<object_type, fields>>))
    IN  IF ~flags.salesforce THEN Return(SalesforceUnavailable, <<>>)
        ELSE IF ~Truthy(object_type)
        THEN Return([success |-> FALSE, error |-> "Object type is required"], <<>>)
        ELSE IF ~Truthy(fields)
        THEN Return([success |-> FALSE, error |-> "Fields are required"], <<>>)
        ELSE IF ~conn.val.success THEN conn
        ELSE IF ~e.sf_create.ok
        THEN Return([success |-> FALSE,
                     error |-> "Failed to create record: " \o Join(e.sf_create.exc.msg),
                     object_type |-> object_type], c)
        ELSE Return([success |-> TRUE, id |-> DictGet(e.sf_create.result, "id"),
                     object_type |-> object_type,
                     message |-> PyStr(object_type) \o " record created successfully"], c)

\* a variant of SalesforcePlugin.update_record that issues the update whether
\* or not the client was constructed
SalesforcePlugin_update_record_unconnected(flags, object_type, record_id, fields, sf_config, e) ==
    LET conn == SalesforceConnect(sf_config, e)
        c == Append(conn.calls,
                    Event("sf_update", e.sf_update.ok, <<object_type, record_id, fields>>))
    IN  IF ~flags.salesforce THEN Return(SalesforceUnavailable, <<>>)
        ELSE IF ~Truthy(object_type) \/ ~Truthy(record_id)
        THEN Return([success |-> FALSE, error |-> "Object type and record ID are required"], <<>>)
        ELSE IF ~Truthy(fields)
        THEN Return([success |-> FALSE, error |-> "Fields are required"], <<>>)
        ELSE IF ~conn.val.success THEN Return(conn.val, c)
        ELSE IF ~e.sf_update.ok
        THEN Return([success |-> FALSE,
                     error |-> "Failed to update record: " \o Join(e.sf_update.exc.msg),
                     object_type |-> object_type, record_id |-> record_id], c)
        ELSE Return([success |-> TRUE, id |-> record_id, object_type |-> object_type,
                     message |-> PyStr(object_type) \o " record updated successfully"], c)

\* SalesforcePlugin.update_record
SalesforcePlugin_update_record(flags, object_type, record_id, fields, sf_config, e) ==
    LET conn == SalesforceConnect(sf_config, e)
        c == Append(conn.calls,
                    Event("sf_update", e.sf_update.ok, <<object_type, record_id, fields>>))
    IN  IF ~flags.salesforce THEN Return(SalesforceUnavailable, <<>>)
        ELSE IF ~Truthy(object_type) \/ ~Truthy(record_id)
        THEN Return([success |-> FALSE, error |-> "Object type and record ID are required"], <<>>)
        ELSE IF ~Truthy(fields)
        THEN Return([success |-> FALSE, error |-> "Fields are required"], <<>>)
        ELSE IF ~conn.val.success THEN conn
        ELSE IF ~e.sf_update.ok
        THEN Return([success |-> FALSE,
                     error |-> "Failed to update record: " \o Join(e.sf_update.exc.msg),
                     object_type |-> object_type, record_id |-> record_id], c)
        ELSE Return([success |-> TRUE, id |-> record_id, object_type |-> object_type,
                     message |-> PyStr(object_type) \o " record updated successfully"], c)

\* a variant of SalesforcePlugin.execute_action that drops the record id
SalesforcePlugin_execute_action_no_record(flags, action_name, action_params, record_id, sf_config, e) ==
    LET conn == SalesforceConnect(sf_config, e)
    IN  IF ~flags.salesforce THEN Return(SalesforceUnavailable, <<>>)
        ELSE IF ~Truthy(action_name)
        THEN Return([success |-> FALSE, error |-> "Action name is required"], <<>>)
        ELSE IF ~conn.val.success THEN conn
        ELSE Return([success |-> TRUE, action_name |-> action_name,
                     message |-> "Action '" \o PyStr(action_name) \o "' executed successfully",
                     params |-> action_params, record_id |-> None,
                     note |-> "Agentforce action execution - implement actual API call based on your configuration"],
                    conn.calls)

\* SalesforcePlugin.execute_action
SalesforcePlugin_execute_action(flags, action_name, action_params, record_id, sf_config, e) ==
    LET conn == SalesforceConnect(sf_config, e)
    IN  IF ~flags.salesforce THEN Return(SalesforceUnavailable, <<>>)
        ELSE IF ~Truthy(action_name)
        THEN Return([success |-> FALSE, error |-> "Action name is required"], <<>>)
        ELSE IF ~conn.val.success THEN conn
        ELSE Return([success |-> TRUE, action_name |-> action_name,
                     message |-> "Action '" \o PyStr(action_name) \o "' executed successfully",
                     params |-> action_params, record_id |-> record_id,
                     note |-> "Agentforce action execution - implement actual API call based on your configuration"],
                    conn.calls)

-----------------------------------------------------------------------------
(* The route handlers *)

\* the body of a request: malformed (no JSON can be read) or a JSON value
Malformed == [malformed |-> TRUE, json |-> None]
Json(x) == [malformed |-> FALSE, json |-> x]

\* request.get_json()
GetJson(body) ==
    IF body.malformed
    THEN Raise(Exc("BadRequest", <<"400", "Bad", "Request:", "Failed", "to", "decode", "JSON", "object">>), <<>>)
    ELSE Return(body.json, <<>>)

\* `field not in data`: a TypeError when data is not a container
NotIn(field, data) ==
    CASE data.t = "dict" -> Return(field \notin DOMAIN data.v, <<>>)
      [] data.t = "list" -> Return(TRUE, <<>>)
      [] OTHER -> Raise(Exc("TypeError", <<"argument", "of", "type", "is", "not", "iterable">>), <<>>)

\* `for field in fields: if field not in data: return ...`: the first field
\* of the list that is not in data (0 when there is none)
FirstNotIn(fields, data) ==
    LET bad == {i \in 1..Len(fields) : NotIn(fields[i], data).val}
    IN  IF NotIn(fields[1], data).raised THEN Raise(NotIn(fields[1], data).exc, <<>>)
        ELSE Return(IF bad = {} THEN 0 ELSE CHOOSE i \in bad : \A j \in bad : i <= j, <<>>)

\* `for field in fields: if field not in config or not config[field]`: the
\* first field of the list that config lacks or holds a falsy value for
FirstFalsy(fields, config) ==
    LET bad == {i \in 1..Len(fields) :
                    fields[i] \notin DOMAIN config.v \/ ~Truthy(config.v[fields[i]])}
    IN  IF bad = {} THEN 0 ELSE CHOOSE i \in bad : \A j \in bad : i <= j

\* what the try block of a handler ends with: a response, or an exception
Respond(status, body, inv, cs) ==
    [raised |-> FALSE, exc |-> Exc("", <<>>), status |-> status, body |-> body,
     invoked |-> inv, calls |-> cs]
Fault(e, inv, cs) ==
    [raised |-> TRUE, exc |-> e, status |-> 0, body |-> [success |-> FALSE],
     invoked |-> inv, calls |-> cs]

\* `return jsonify({'success': False, 'error': ...}), 400`
BadRequest(error) == Respond(400, [success |-> FALSE, error |-> error], <<>>, <<>>)

\* a plugin method invoked by a handler
Invocation(method, args, result) == [method |-> method, args |-> args, result |-> result]

\* a variant of Dispatch that answers 200 whatever the result
DispatchAlways200(method, args, r) ==
    IF r.raised THEN Fault(r.exc, <<Invocation(method, args, r.val)>>, r.calls)
    ELSE Respond(200, r.val, <<Invocation(method, args, r.val)>>, r.calls)

\* `if result['success']: return jsonify(result), 200 / else: ... 500`
Dispatch(method, args, r) ==
    IF r.raised THEN Fault(r.exc, <<Invocation(method, args, r.val)>>, r.calls)
    ELSE Respond(IF r.val.success THEN 200 ELSE 500, r.val,
                 <<Invocation(method, args, r.val)>>, r.calls)

\* a variant of ExceptClause that lets the exception leave the handler
ExceptClauseReraises(r) ==
    [status |-> r.status, body |-> r.body, invoked |-> r.invoked, calls |-> r.calls,
     caught |-> FALSE, unhandled |-> r.raised]

\* `except Exception as e: return jsonify({'success': False, 'error': str(e)}), 500`
ExceptClause(r) ==
    IF r.raised
    THEN [status |-> 500, body |-> [success |-> FALSE, error |-> Join(r.exc.msg)],
          invoked |-> r.invoked, calls |-> r.calls, caught |-> TRUE, unhandled |-> FALSE]
    ELSE [status |-> r.status, body |-> r.body, invoked |-> r.invoked,
          calls |-> r.calls, caught |-> FALSE, unhandled |-> FALSE]

RequiredEmailFields == <<"to_email", "subject", "body">>
RequiredSmtpFields == <<"smtp_server", "smtp_port", "smtp_username", "smtp_password">>

\* a variant of send_email that leaves the test of smtp_config to the plugin
send_email_try_unvalidated(plugin, body, e) ==
    LET j == GetJson(body)
        data == j.val
        missing == FirstNotIn(RequiredEmailFields, data)
        smtp_config == DictGet(data, "smtp_config")
        args == [to_email |-> data.v["to_email"], subject |-> data.v["subject"],
                 body |-> data.v["body"], smtp_config |-> smtp_config,
                 is_html |-> DictGetOr(data, "is_html", Bool(FALSE))]
    IN  IF j.raised THEN Fault(j.exc, <<>>, <<>>)
        ELSE IF missing.raised THEN Fault(missing.exc, <<>>, <<>>)
        ELSE IF missing.val # 0
        THEN BadRequest("Missing required field: " \o RequiredEmailFields[missing.val])
        ELSE Dispatch("EmailPlugin.send_email", args,
                      EmailPlugin_send_email(plugin, args.to_email, args.subject, args.body,
                                             args.smtp_config, args.is_html, e))

\* send_email, the try block
send_email_try(plugin, body, e) ==
    LET j == GetJson(body)
        data == j.val
        missing == FirstNotIn(RequiredEmailFields, data)
        smtp_config == DictGet(data, "smtp_config")
        falsy == FirstFalsy(RequiredSmtpFields, smtp_config)
        args == [to_email |-> data.v["to_email"], subject |-> data.v["subject"],
                 body |-> data.v["body"], smtp_config |-> smtp_config,
                 is_html |-> DictGetOr(data, "is_html", Bool(FALSE))]
    IN  IF j.raised THEN Fault(j.exc, <<>>, <<>>)
        ELSE IF missing.raised THEN Fault(missing.exc, <<>>, <<>>)
        ELSE IF missing.val # 0
        THEN BadRequest("Missing required field: " \o RequiredEmailFields[missing.val])
        ELSE IF ~Truthy(smtp_config)
        THEN BadRequest("SMTP credentials not provided. Please configure your credentials in the UI.")
        ELSE IF falsy # 0
        THEN BadRequest("Missing required SMTP field: " \o RequiredSmtpFields[falsy])
        ELSE Dispatch("EmailPlugin.send_email", args,
                      EmailPlugin_send_email(plugin, args.to_email, args.subject, args.body,
                                             args.smtp_config, args.is_html, e))

\* POST /api/email/send
send_email(plugin, body, e) == ExceptClause(send_email_try(plugin, body, e))

MissingApiKey ==
    BadRequest("OpenAI API key not provided. Please configure your API key in the UI.")

\* write_story, the try block
write_story_try(flags, body, e) ==
    LET j == GetJson(body)
        data == j.val
        missing == FirstNotIn(<<"prompt">>, data)
        api_key == DictGet(data, "openai_api_key")
        args == [prompt |-> data.v["prompt"], api_key |-> api_key,
                 genre |-> DictGet(data, "genre"),
                 length |-> DictGetOr(data, "length", Str("medium")),
                 tone |-> DictGet(data, "tone"),
                 model |-> DictGetOr(data, "model", Str("gpt-5-nano"))]
    IN  IF j.raised THEN Fault(j.exc, <<>>, <<>>)
        ELSE IF missing.raised THEN Fault(missing.exc, <<>>, <<>>)
        ELSE IF missing.val # 0 THEN BadRequest("Missing required field: prompt")
        ELSE IF ~Truthy(api_key) THEN MissingApiKey
        ELSE Dispatch("StoryPlugin.write_story", args,
                      StoryPlugin_write_story(flags, args.prompt, args.api_key, args.genre,
                                              args.length, args.tone, args.model, e))

\* POST /api/story/write
write_story(flags, body, e) == ExceptClause(write_story_try(flags, body, e))

\* continue_story, the try block
continue_story_try(flags, body, e) ==
    LET j == GetJson(body)
        data == j.val
        missing == FirstNotIn(<<"story">>, data)
        api_key == DictGet(data, "openai_api_key")
        args == [story |-> data.v["story"], api_key |-> api_key,
                 direction |-> DictGet(data, "direction"),
                 length |-> DictGetOr(data, "length", Str("medium")),
                 model |-> DictGetOr(data, "model", Str("gpt-5-nano"))]
    IN  IF j.raised THEN Fault(j.exc, <<>>, <<>>)
        ELSE IF missing.raised THEN Fault(missing.exc, <<>>, <<>>)
        ELSE IF missing.val # 0 THEN BadRequest("Missing required field: story")
        ELSE IF ~Truthy(api_key) THEN MissingApiKey
        ELSE Dispatch("StoryPlugin.continue_story", args,
                      StoryPlugin_continue_story(flags, args.story, args.api_key,
                                                 args.direction, args.length, args.model, e))

\* POST /api/story/continue
continue_story(flags, body, e) == ExceptClause(continue_story_try(flags, body, e))

\* improve_story, the try block
improve_story_try(flags, body, e) ==
    LET j == GetJson(body)
        data == j.val
        missing == FirstNotIn(<<"story">>, data)
        api_key == DictGet(data, "openai_api_key")
        args == [story |-> data.v["story"], api_key |-> api_key,
                 focus |-> DictGet(data, "focus"), style |-> DictGet(data, "style"),
                 model |-> DictGetOr(data, "model", Str("gpt-5-nano"))]
    IN  IF j.raised THEN Fault(j.exc, <<>>, <<>>)
        ELSE IF missing.raised THEN Fault(missing.exc, <<>>, <<>>)
        ELSE IF missing.val # 0 THEN BadRequest("Missing required field: story")
        ELSE IF ~Truthy(api_key) THEN MissingApiKey
        ELSE Dispatch("StoryPlugin.improve_story", args,
                      StoryPlugin_improve_story(flags, args.story, args.api_key, args.focus,
                                                args.style, args.model, e))

\* POST /api/story/improve
improve_story(flags, body, e) == ExceptClause(improve_story_try(flags, body, e))

DefaultMaxResults == 5

\* web_search, the try block
web_search_try(flags, body, e) ==
    LET j == GetJson(body)
        data == j.val
        missing == FirstNotIn(<<"query">>, data)
        args == [query |-> data.v["query"],
                 max_results |-> DictGetOr(data, "max_results", Num(DefaultMaxResults)),
                 region |-> DictGetOr(data, "region", Str("us-en"))]
    IN  IF j.raised THEN Fault(j.exc, <<>>, <<>>)
        ELSE IF missing.raised THEN Fault(missing.exc, <<>>, <<>>)
        ELSE IF missing.val # 0 THEN BadRequest("Missing required field: query")
        ELSE Dispatch("WebSearchPlugin.search", args,
                      WebSearchPlugin_search(flags, args.query, args.max_results,
                                             args.region, e))

\* POST /api/websearch/search
web_search(flags, body, e) == ExceptClause(web_search_try(flags, body, e))

\* web_search_summarize, the try block
web_search_summarize_try(flags, body, e) ==
    LET j == GetJson(body)
        data == j.val
        missing == FirstNotIn(<<"query">>, data)
        api_key == DictGet(data, "openai_api_key")
        args == [query |-> data.v["query"], api_key |-> api_key,
                 max_results |-> DictGetOr(data, "max_results", Num(DefaultMaxResults)),
                 focus |-> DictGet(data, "focus"),
                 model |-> DictGetOr(data, "model", Str("gpt-5-nano"))]
    IN  IF j.raised THEN Fault(j.exc, <<>>, <<>>)
        ELSE IF missing.raised THEN Fault(missing.exc, <<>>, <<>>)
        ELSE IF missing.val # 0 THEN BadRequest("Missing required field: query")
        ELSE IF ~Truthy(api_key) THEN MissingApiKey
        ELSE Dispatch("WebSearchPlugin.search_and_summarize", args,
                      WebSearchPlugin_search_and_summarize(flags, args.query, args.api_key,
                                                           args.max_results, args.focus,
                                                           args.model, e))

\* POST /api/websearch/summarize
web_search_summarize(flags, body, e) == ExceptClause(web_search_summarize_try(flags, body, e))

RequiredSalesforceFields == <<"username", "password">>

MissingSfConfig ==
    BadRequest("Salesforce credentials not provided. Please configure your credentials in the UI.")

\* a variant of SfConfigCheck that does not look into sf_config
SfConfigCheckNoFields(sf_config) == IF ~Truthy(sf_config) THEN 1 ELSE 0

\* the checks of sf_config the four Salesforce handlers share: 0 when it
\* passes, 1 when sf_config is falsy, 2 and 3 when username, password is
SfConfigCheck(sf_config) ==
    IF ~Truthy(sf_config) THEN 1
    ELSE IF FirstFalsy(RequiredSalesforceFields, sf_config) # 0
    THEN 1 + FirstFalsy(RequiredSalesforceFields, sf_config)
    ELSE 0

SfConfigReply(check) ==
    IF check = 1 THEN MissingSfConfig
    ELSE BadRequest("Missing required Salesforce field: " \o RequiredSalesforceFields[check - 1])

\* salesforce_query, the try block
salesforce_query_try(flags, body, e) ==
    LET j == GetJson(body)
        data == j.val
        missing == FirstNotIn(<<"soql">>, data)
        sf_config == DictGet(data, "sf_config")
        args == [soql |-> data.v["soql"], sf_config |-> sf_config]
    IN  IF j.raised THEN Fault(j.exc, <<>>, <<>>)
        ELSE IF missing.raised THEN Fault(missing.exc, <<>>, <<>>)
        ELSE IF missing.val # 0 THEN BadRequest("Missing required field: soql")
        ELSE IF SfConfigCheck(sf_config) # 0 THEN SfConfigReply(SfConfigCheck(sf_config))
        ELSE Dispatch("SalesforcePlugin.query", args,
                      SalesforcePlugin_query(flags, args.soql, args.sf_config, e))

\* POST /api/salesforce/query
salesforce_query(flags, body, e) == ExceptClause(salesforce_query_try(flags, body, e))

\* salesforce_create, the try block
salesforce_create_try(flags, body, e) ==
    LET j == GetJson(body)
        data == j.val
        missing == FirstNotIn(<<"object_type", "fields">>, data)
        sf_config == DictGet(data, "sf_config")
        args == [object_type |-> data.v["object_type"], fields |-> data.v["fields"],
                 sf_config |-> sf_config]
    IN  IF j.raised THEN Fault(j.exc, <<>>, <<>>)
        ELSE IF missing.raised THEN Fault(missing.exc, <<>>, <<>>)
        ELSE IF missing.val # 0
        THEN BadRequest("Missing required fields: object_type and fields")
        ELSE IF SfConfigCheck(sf_config) # 0 THEN SfConfigReply(SfConfigCheck(sf_config))
        ELSE Dispatch("SalesforcePlugin.create_record", args,
                      SalesforcePlugin_create_record(flags, args.object_type, args.fields,
                                                     args.sf_config, e))

\* POST /api/salesforce/create
salesforce_create(flags, body, e) == ExceptClause(salesforce_create_try(flags, body, e))

\* salesforce_update, the try block
salesforce_update_try(flags, body, e) ==
    LET j == GetJson(body)
        data == j.val
        missing == FirstNotIn(<<"object_type", "record_id", "fields">>, data)
        sf_config == DictGet(data, "sf_config")
        args == [object_type |-> data.v["object_type"], record_id |-> data.v["record_id"],
                 fields |-> data.v["fields"], sf_config |-> sf_config]
    IN  IF j.raised THEN Fault(j.exc, <<>>, <<>>)
        ELSE IF missing.raised THEN Fault(missing.exc, <<>>, <<>>)
        ELSE IF missing.val # 0
        THEN BadRequest("Missing required fields: object_type, record_id, and fields")
        ELSE IF SfConfigCheck(sf_config) # 0 THEN SfConfigReply(SfConfigCheck(sf_config))
        ELSE Dispatch("SalesforcePlugin.update_record", args,
                      SalesforcePlugin_update_record(flags, args.object_type, args.record_id,
                                                     args.fields, args.sf_config, e))

\* POST /api/salesforce/update
salesforce_update(flags, body, e) == ExceptClause(salesforce_update_try(flags, body, e))

\* salesforce_execute_action, the try block
salesforce_execute_action_try(flags, body, e) ==
    LET j == GetJson(body)
        data == j.val
        missing == FirstNotIn(<<"action_name">>, data)
        sf_config == DictGet(data, "sf_config")
        args == [action_name |-> data.v["action_name"],
                 action_params |-> DictGetOr(data, "action_params", Dict(EmptyDict)),
                 record_id |-> DictGet(data, "record_id"), sf_config |-> sf_config]
    IN  IF j.raised THEN Fault(j.exc, <<>>, <<>>)
        ELSE IF missing.raised THEN Fault(missing.exc, <<>>, <<>>)
        ELSE IF missing.val # 0 THEN BadRequest("Missing required field: action_name")
        ELSE IF SfConfigCheck(sf_config) # 0 THEN SfConfigReply(SfConfigCheck(sf_config))
        ELSE Dispatch("SalesforcePlugin.execute_action", args,
                      SalesforcePlugin_execute_action(flags, args.action_name,
                                                      args.action_params, args.record_id,
                                                      args.sf_config, e))

\* POST /api/salesforce/execute-action
salesforce_execute_action(flags, body, e) ==
    ExceptClause(salesforce_execute_action_try(flags, body, e))

\* str.strip()
Strip(s) == IF s = " " THEN "" ELSE s

\* `x.get(k, '').strip() if x.get(k) else ''`
StrippedOrEmpty(d, k) == IF Truthy(DictGet(d, k)) THEN Strip(DictGet(d, k).v) ELSE ""

TestQuery == "SELECT Id FROM User LIMIT 1"

\* salesforce_test_connection, the keyword arguments of Salesforce(...)
TestKwargs(sf_config, username, password) ==
    LET domain == IF DictGetOr(sf_config, "domain", Str("login")).t = "str"
                  THEN (IF Strip(DictGetOr(sf_config, "domain", Str("login")).v) = ""
                        THEN "login"
                        ELSE Strip(DictGetOr(sf_config, "domain", Str("login")).v))
                  ELSE "login"
        security_token == StrippedOrEmpty(sf_config, "security_token")
        client_id == StrippedOrEmpty(sf_config, "client_id")
        client_secret == StrippedOrEmpty(sf_config, "client_secret")
    IN  [username |-> Str(username), password |-> Str(password), domain |-> Str(domain)]
        @@ (IF client_id # "" /\ client_secret # ""
            THEN [consumer_key |-> Str(client_id), consumer_secret |-> Str(client_secret)]
            ELSE EmptyDict)
        @@ (IF security_token # "" THEN [security_token |-> Str(security_token)]
            ELSE EmptyDict)

\* salesforce_test_connection, `except Exception as init_err`
InitErrorReply(exc, cs) ==
    IF \/ Contains(Lower(exc.msg), <<"login", "information">>)
       \/ Contains(Lower(exc.msg), <<"instance", "and", "token">>)
    THEN Respond(401,
                 [success |-> FALSE,
                  error |-> "Salesforce authentication failed. The library could not authenticate with provided credentials.",
                  details |-> "Error: " \o Join(exc.msg) \o ". This can occur even without IP restrictions."],
                 <<>>, cs)
    ELSE Respond(400,
                 [success |-> FALSE,
                  error |-> "Failed to initialize Salesforce client: " \o Join(exc.msg)],
                 <<>>, cs)

\* salesforce_test_connection, `except Exception as conn_error`
ConnErrorReply(exc, cs) ==
    IF Contains(exc.msg, <<"INVALID_LOGIN">>) \/ Contains(Lower(exc.msg), <<"authentication", "failure">>)
    THEN Respond(401,
                 [success |-> FALSE,
                  error |-> "Authentication failed. Please check your username and password.",
                  details |-> "If you have MFA enabled, you may need a security token or OAuth credentials."],
                 <<>>, cs)
    ELSE IF Contains(Lower(exc.msg), <<"security", "token">>)
    THEN Respond(401,
                 [success |-> FALSE,
                  error |-> "Security token may be required. If your IP is not whitelisted, you need a security token.",
                  details |-> "Get your security token from: Setup  My Personal Information  Reset My Security Token"],
                 <<>>, cs)
    ELSE Respond(401, [success |-> FALSE, error |-> "Connection failed: " \o Join(exc.msg)],
                 <<>>, cs)

\* salesforce_test_connection, the try block
salesforce_test_connection_try(flags, body, e) ==
    LET j == GetJson(body)
        data == j.val
        sf_config == DictGet(data, "sf_config")
        username == StrippedOrEmpty(sf_config, "username")
        password == StrippedOrEmpty(sf_config, "password")
        c1 == <<Event("salesforce", e.salesforce.ok,
                      <<TestKwargs(sf_config, username, password)>>)>>
        c2 == Append(c1, Event("sf_query", e.sf_query.ok, <<Str(TestQuery)>>))
        verified == Truthy(e.salesforce.instance_url)
        c3 == IF verified THEN c2 ELSE Append(c2, Event("sf_query", e.sf_query.ok, <<Str(TestQuery)>>))
    IN  IF j.raised THEN Fault(j.exc, <<>>, <<>>)
        ELSE IF data.t # "dict"
        THEN Fault(Exc("AttributeError", <<"object", "has", "no", "attribute", "'get'">>), <<>>, <<>>)
        ELSE IF ~Truthy(sf_config) THEN BadRequest("Salesforce credentials not provided")
        ELSE IF username = "" \/ password = ""
        THEN Respond(400,
                     [success |-> FALSE, error |-> "Username and password are required",
                      debug |-> [username_provided |-> username # "",
                                 password_provided |-> password # "",
                                 config_keys |-> DOMAIN sf_config.v]],
                     <<>>, <<>>)
        ELSE IF ~flags.salesforce THEN Respond(500, SalesforceUnavailable, <<>>, <<>>)
        ELSE IF ~e.salesforce.ok THEN InitErrorReply(e.salesforce.exc, c1)
        ELSE IF ~verified /\ ~e.sf_query.ok THEN InitErrorReply(e.sf_query.exc, c2)
        ELSE IF ~e.sf_query.ok THEN ConnErrorReply(e.sf_query.exc, c2)
        ELSE Respond(200,
                     [success |-> TRUE, message |-> "Connection successful!",
                      username |-> DictGet(sf_config, "username"),
                      instance_url |-> e.salesforce.instance_url,
                      test_query_result |->
                          [total_size |-> DictGetOr(e.sf_query.result, "totalSize", Num(0)),
                           done |-> DictGetOr(e.sf_query.result, "done", Bool(TRUE))]],
                     <<>>, c3)

\* POST /api/salesforce/test-connection
salesforce_test_connection(flags, body, e) ==
    ExceptClause(salesforce_test_connection_try(flags, body, e))

\* a log record: its level and the pieces of its message, the literal texts
\* and the interpolated values in order
LogRecord(level, msg) == [level |-> level, msg |-> msg]

\* list(d.keys())
Keys(d) == [t |-> "keys", v |-> DOMAIN d]

\* s[:10]
FirstTen(s) == IF Len(s) <= 10 THEN s ELSE "<the first ten characters>"

\* `{k: ('***' if k == 'password' or k == 'consumer_secret' else v) ...}`
SafeKwargs(sf_kwargs) ==
    [k \in DOMAIN sf_kwargs |->
        IF k = "password" \/ k = "consumer_secret" THEN Str("***") ELSE sf_kwargs[k]]

\* salesforce_test_connection, the records of `except Exception as init_err`
InitErrorLog(exc, sf_kwargs) ==
    <<LogRecord("error", <<Str("Error creating Salesforce client:"), Str(Join(exc.msg))>>),
      LogRecord("error", <<Str("Exception type:"), Str(exc.type)>>),
      LogRecord("error", <<Str(TracebackText)>>)>>
    \o (IF \/ Contains(Lower(exc.msg), <<"login", "information">>)
            \/ Contains(Lower(exc.msg), <<"instance", "and", "token">>)
        THEN <<LogRecord("error", <<Str("Salesforce initialization failed with 'login information' error")>>),
               LogRecord("error", <<Str("Error details:"), Str(Join(exc.msg))>>),
               LogRecord("error", <<Str("Kwargs passed:"), Keys(sf_kwargs)>>)>>
        ELSE <<>>)

\* salesforce_test_connection, the records it writes to the log, in order
salesforce_test_connection_log(flags, body, e) ==
    LET j == GetJson(body)
        data == j.val
        sf_config == DictGet(data, "sf_config")
        username == StrippedOrEmpty(sf_config, "username")
        password == StrippedOrEmpty(sf_config, "password")
        sf_kwargs == TestKwargs(sf_config, username, password)
        verified == Truthy(e.salesforce.instance_url)
        outer(exc) ==
            <<LogRecord("error", <<Str("Error in salesforce_test_connection endpoint:"),
                                   Str(Join(exc.msg))>>)>>
        received ==
            <<LogRecord("info", <<Str("Received Salesforce config keys:"), Keys(sf_config.v)>>),
              LogRecord("info", <<Str("Username present:"),
                                  Bool(Truthy(DictGet(sf_config, "username"))),
                                  Str("Password present:"),
                                  Bool(Truthy(DictGet(sf_config, "password")))>>)>>
        missing ==
            <<LogRecord("error", <<Str("Missing credentials - username:"),
                                   Str(IF username # "" THEN FirstTen(username) ELSE "EMPTY"),
                                   Str("password:"),
                                   Str(IF password # "" THEN "PRESENT" ELSE "EMPTY")>>)>>
        attempt ==
            <<LogRecord("info", <<Str("Attempting Salesforce connection with username:"),
                                  Str(username), Str("domain:"), sf_kwargs.domain,
                                  Str("has_token:"), Bool("security_token" \in DOMAIN sf_kwargs),
                                  Str("has_oauth:"), Bool("consumer_key" \in DOMAIN sf_kwargs)>>),
              LogRecord("info", <<Str("Salesforce kwargs keys:"), Keys(sf_kwargs)>>),
              LogRecord("info", <<Str("Username length:"), Num(Len(username)),
                                  Str("Password length:"), Num(Len(password))>>),
              LogRecord("info", <<Str("Calling Salesforce with kwargs:"),
                                  Dict(SafeKwargs(sf_kwargs))>>)>>
        unverified ==
            <<LogRecord("warning", <<Str("Salesforce client created but instance_url not found")>>)>>
    IN  IF j.raised THEN outer(j.exc)
        ELSE IF data.t # "dict"
        THEN outer(Exc("AttributeError", <<"object", "has", "no", "attribute", "'get'">>))
        ELSE IF ~Truthy(sf_config) THEN <<>>
        ELSE IF username = "" \/ password = "" THEN received \o missing
        ELSE IF ~flags.salesforce THEN received
        ELSE IF ~e.salesforce.ok
        THEN received \o attempt \o InitErrorLog(e.salesforce.exc, sf_kwargs)
        ELSE IF ~verified /\ ~e.sf_query.ok
        THEN received \o attempt \o unverified
             \o <<LogRecord("error", <<Str("Test query failed:"), Str(Join(e.sf_query.exc.msg))>>)>>
             \o InitErrorLog(e.sf_query.exc, sf_kwargs)
        ELSE IF ~e.sf_query.ok
        THEN received \o attempt
             \o <<LogRecord("error", <<Str("Salesforce connection test failed:"),
                                       Str(Join(e.sf_query.exc.msg))>>)>>
        ELSE received \o attempt
             \o (IF verified THEN <<>>
                 ELSE unverified
                      \o <<LogRecord("info", <<Str("Connection verified via test query")>>)>>)
             \o <<LogRecord("info", <<Str("Salesforce connection test successful for user:"),
                                      DictGet(sf_config, "username")>>)>>

-----------------------------------------------------------------------------
(* The requests and the answers of the environment that are explored *)

\* a payload differs from a valid one in at most MaxDefects fields
MaxDefects == 2

\* a key the payload does not carry
Absent == [t |-> "absent", v |-> 0]

\* the dict of the fields that are not Absent
MkDict(f) == [k \in {x \in DOMAIN f : f[x] # Absent} |-> f[k]]

Defects(f, valid) == Cardinality({k \in DOMAIN f : f[k] # valid[k]})

ToEmail == "a@b.com"

ValidEmailFields ==
    [to_email |-> Str(ToEmail), subject |-> Str("hi"), body |-> Str("hello"),
     is_html |-> Absent, smtp_config |-> "dict",
     smtp_server |-> Str("smtp.x.com"), smtp_port |-> Num(587),
     smtp_username |-> Str("u"), smtp_password |-> Str("p")]

EmailFields ==
    [to_email : {Str(ToEmail), Str(""), Absent},
     subject : {Str("hi"), Str(""), Absent},
     body : {Str("hello"), Str(""), Absent},
     is_html : {Absent, Bool(TRUE)},
     smtp_config : {"dict", "absent", "null", "empty"},
     smtp_server : {Str("smtp.x.com"), Str(""), Absent},
     smtp_port : {Num(587), Num(0), Str("587"), Str("0"), Str(""), Str("abc"), Absent},
     smtp_username : {Str("u"), Str(""), Absent},
     smtp_password : {Str("p"), Str(""), Absent}]

SmtpConfigOf(f) ==
    CASE f.smtp_config = "absent" -> Absent
      [] f.smtp_config = "null"   -> None
      [] f.smtp_config = "empty"  -> Dict(EmptyDict)
      [] OTHER -> Dict(MkDict([smtp_server |-> f.smtp_server, smtp_port |-> f.smtp_port,
                               smtp_username |-> f.smtp_username,
                               smtp_password |-> f.smtp_password]))

EmailPayload(f) ==
    Dict(MkDict([to_email |-> f.to_email, subject |-> f.subject, body |-> f.body,
                 is_html |-> f.is_html, smtp_config |-> SmtpConfigOf(f)]))

\* bodies that are no JSON object
OddBodies == {Malformed, Json(None), Json(List(<<>>))}

EmailBodies ==
    OddBodies \cup
    {Json(EmailPayload(f)) : f \in {g \in EmailFields : Defects(g, ValidEmailFields) <= MaxDefects}}

\* the texts of a rejected login
AuthTexts ==
    {<<"535", "Username", "and", "Password", "not", "accepted">>,
     <<"534", "Application-specific", "password", "required">>,
     <<"454", "Authentication", "Failed">>,
     <<"454", "Failed", "Authentication">>,
     <<"530", "authentication", "required">>,
     <<"538", "Encryption", "required">>}

SmtpFailures ==
    {Raises("SMTPException", <<"Connection", "unexpectedly", "closed">>),
     Raises("OSError", <<"Network", "is", "unreachable">>)}

LoginFailures ==
    SmtpFailures \cup {Raises("SMTPAuthenticationError", m) : m \in AuthTexts}

\* the results the search provider yields
MaxStream == 3

ItemA == [title |-> "Title A", href |-> "https://a.example", body |-> "Snippet A"]
ItemB == [title |-> "Title B", href |-> "https://b.example", body |-> "Snippet B"]

Streams == UNION {[1..k -> {ItemA, ItemB}] : k \in 0..MaxStream}

\* the answers of responses.create: the transcript is response.input
UserItem == [role |-> "user", content |-> List(<<[type |-> "input_text", text |-> "Write"]>>)]
AssistantItem(texts) ==
    [role |-> "assistant",
     content |-> List([i \in 1..Len(texts) |-> [type |-> "output_text", text |-> texts[i]]])]
ReasoningItem ==
    [role |-> "assistant", content |-> List(<<[type |-> "reasoning", text |-> "hm"]>>)]
\* an assistant item without content
EmptyItem == [role |-> "assistant", content |-> None]

Response(has_input, input) == [has_input |-> has_input, input |-> input]

Transcripts ==
    {Response(FALSE, <<>>),
     Response(TRUE, <<UserItem, AssistantItem(<<"Story A">>)>>),
     Response(TRUE, <<UserItem, AssistantItem(<<"First">>), AssistantItem(<<"Last">>)>>),
     Response(TRUE, <<UserItem, ReasoningItem, AssistantItem(<<"">>)>>),
     Response(TRUE, <<AssistantItem(<<"One", "Two">>)>>),
     Response(TRUE, <<UserItem, EmptyItem>>)}

\* every external operation succeeds
DefaultEnv ==
    [connect |-> Ok, starttls |-> Ok, login |-> Ok, send_message |-> Ok,
     ddgs |-> Ok,
     ddgs_text |-> Ok @@ [items |-> <<>>, fails |-> FALSE],
     openai_client |-> Ok @@ [has_responses |-> TRUE],
     responses_create |-> Ok @@ [response |-> Response(FALSE, <<>>)],
     chat_create |-> Ok @@ [content |-> Str("Once upon a time")],
     salesforce |-> Ok @@ [instance_url |-> Str("https://x.my.salesforce.com")],
     sf_query |-> Ok @@ [result |-> Dict([records |-> List(<<>>), totalSize |-> Num(0),
                                          done |-> Bool(TRUE)])],
     sf_create |-> Ok @@ [result |-> Dict([id |-> Str("001")])],
     sf_update |-> Ok]

\* the answers of the SMTP server: all succeed, or one operation fails
SmtpScripts ==
    {DefaultEnv}
    \cup {[DefaultEnv EXCEPT !.connect = x] : x \in SmtpFailures}
    \cup {[DefaultEnv EXCEPT !.starttls = x] : x \in SmtpFailures}
    \cup {[DefaultEnv EXCEPT !.login = x] : x \in LoginFailures}
    \cup {[DefaultEnv EXCEPT !.send_message = x] : x \in SmtpFailures}

ProviderFailures ==
    {Raises("DuckDuckGoSearchException", <<"202", "Ratelimit">>)}

\* the answers of the search provider
SearchScripts ==
    {[DefaultEnv EXCEPT !.ddgs = x] : x \in ProviderFailures}
    \cup {[DefaultEnv EXCEPT !.ddgs_text = x @@ [items |-> <<>>, fails |-> FALSE]] :
            x \in ProviderFailures}
    \cup {[DefaultEnv EXCEPT !.ddgs_text = Ok @@ [items |-> s, fails |-> f]] :
            s \in Streams, f \in BOOLEAN}

ClientAnswers ==
    {Ok @@ [has_responses |-> TRUE], Ok @@ [has_responses |-> FALSE],
     Raises("OpenAIError", <<"The", "api_key", "client", "option", "must", "be", "set">>)
        @@ [has_responses |-> TRUE]}

ApiFailures ==
    {Raises("NotFoundError", <<"The", "Model", "does", "Not", "exist:", "not", "found">>),
     Raises("RateLimitError", <<"Rate", "limit", "reached">>)}

ResponsesAnswers ==
    {Ok @@ [response |-> r] : r \in Transcripts}
    \cup {x @@ [response |-> Response(FALSE, <<>>)] :
            x \in ApiFailures \cup {Raises("AttributeError", <<"object", "has", "no", "attribute", "'create'">>)}}

ChatAnswers ==
    {Ok @@ [content |-> Str("Once upon a time")], Ok @@ [content |-> None]}
    \cup {x @@ [content |-> None] : x \in ApiFailures}

\* the answers of the OpenAI client, on top of the answers e of the others
GenerationScripts(e) ==
    {[e EXCEPT !.openai_client = c, !.responses_create = r, !.chat_create = h] :
        c \in ClientAnswers, r \in ResponsesAnswers, h \in ChatAnswers}

SalesforceFailures ==
    {Raises("SalesforceAuthenticationFailed", <<"INVALID_LOGIN:", "Invalid", "username,", "password,", "security", "token">>),
     Raises("TypeError", <<"You", "must", "provide", "login", "information", "or", "an", "instance", "and", "token">>),
     Raises("ConnectionError", <<"Max", "retries", "exceeded">>)}

QueryResults ==
    {Dict([records |-> List(<<>>), totalSize |-> Num(0), done |-> Bool(TRUE)]),
     Dict([records |-> List(<<Str("001")>>), totalSize |-> Num(1), done |-> Bool(FALSE)]),
     Dict(EmptyDict)}

\* the answers of Salesforce
SalesforceScripts ==
    {[DefaultEnv EXCEPT !.salesforce = x @@ [instance_url |-> None]] : x \in SalesforceFailures}
    \cup {[DefaultEnv EXCEPT !.salesforce = Ok @@ [instance_url |-> u]] :
            u \in {Str("https://x.my.salesforce.com"), None}}
    \cup {[DefaultEnv EXCEPT !.sf_query = Ok @@ [result |-> r]] : r \in QueryResults}
    \cup {[DefaultEnv EXCEPT !.sf_query = x @@ [result |-> Dict(EmptyDict)]] :
            x \in SalesforceFailures}
    \cup {[DefaultEnv EXCEPT !.salesforce = Ok @@ [instance_url |-> None],
                             !.sf_query = x @@ [result |-> Dict(EmptyDict)]] :
            x \in SalesforceFailures}
    \cup {[DefaultEnv EXCEPT !.sf_create = x @@ [result |-> Dict(EmptyDict)]] :
            x \in SalesforceFailures}
    \cup {[DefaultEnv EXCEPT !.sf_create = Ok @@ [result |-> Dict(EmptyDict)]]}
    \cup {[DefaultEnv EXCEPT !.sf_update = x] : x \in SalesforceFailures}

\* the answer of an operation that was not issued is left at its default
Canonical(e, cs) ==
    \A f \in DOMAIN e : (\A i \in 1..Len(cs) : cs[i].op # f) => e[f] = DefaultEnv[f]

\* the answers to explore for a request: when the handler issues no operation
\* with every answer at its default, it consults none, and the default stands
ScriptsFor(r, scripts) == IF r.calls = <<>> THEN {DefaultEnv} ELSE scripts

\* the answers of the search provider and of the chat completion
SummaryScripts ==
    {[s EXCEPT !.openai_client = c, !.chat_create = h] :
        s \in SearchScripts,
        c \in {x \in ClientAnswers : x.has_responses},
        h \in ChatAnswers}

\* the arguments of a direct call of EmailPlugin.send_email
EmailConfigs ==
    {None, Dict(EmptyDict)} \cup
    {Dict(MkDict(c)) :
        c \in [smtp_server : {Str("smtp.x.com"), Str(""), Absent},
               smtp_port : {Num(587), Num(0), Str("587"), Str("0"), Str(""), Str("abc"), Absent},
               smtp_username : {Str("u"), Str(""), Absent},
               smtp_password : {Str("p"), Str(""), Absent},
               from_email : {Absent, Str("me@x.com")}]}

\* the payloads of a handler: those of the fields that differ from the valid
\* payload in at most MaxDefects fields
Payloads(fields, valid) == {g \in fields : Defects(g, valid) <= MaxDefects}

ApiKeys == {Str("sk-1"), Str(""), Absent}
Models == {Absent, Str("gpt-4o")}

ValidWrite ==
    [prompt |-> Str("a dragon"), openai_api_key |-> Str("sk-1"), genre |-> Absent,
     length |-> Absent, tone |-> Absent, model |-> Absent]

WriteBodies ==
    OddBodies \cup
    {Json(Dict(MkDict(f))) :
        f \in Payloads([prompt : {Str("a dragon"), Str(""), Absent},
                        openai_api_key : ApiKeys,
                        genre : {Absent, Str("noir")},
                        length : {Absent, Str("short"), Str("long"), Str("")},
                        tone : {Absent, Str("dark")},
                        model : Models], ValidWrite)}

ValidContinue ==
    [story |-> Str("Once"), openai_api_key |-> Str("sk-1"), direction |-> Absent,
     length |-> Absent, model |-> Absent]

ContinueBodies ==
    OddBodies \cup
    {Json(Dict(MkDict(f))) :
        f \in Payloads([story : {Str("Once"), Str(""), Absent},
                        openai_api_key : ApiKeys,
                        direction : {Absent, Str("twist")},
                        length : {Absent, Str("short"), Str("long")},
                        model : Models], ValidContinue)}

ValidImprove ==
    [story |-> Str("Once"), openai_api_key |-> Str("sk-1"), focus |-> Absent,
     style |-> Absent, model |-> Absent]

ImproveBodies ==
    OddBodies \cup
    {Json(Dict(MkDict(f))) :
        f \in Payloads([story : {Str("Once"), Str(""), Absent},
                        openai_api_key : ApiKeys,
                        focus : {Absent, Str("pacing")},
                        style : {Absent, Str("poetic")},
                        model : Models], ValidImprove)}

MaxResultsValues == {Absent, None, Num(-1), Num(0), Num(1), Num(2)}

ValidSearch == [query |-> Str("tla+"), max_results |-> Absent, region |-> Absent]

SearchBodies ==
    OddBodies \cup
    {Json(Dict(MkDict(f))) :
        f \in Payloads([query : {Str("tla+"), Str(""), Absent},
                        max_results : MaxResultsValues,
                        region : {Absent, Str("uk-en")}], ValidSearch)}

ValidSummarize ==
    [query |-> Str("tla+"), openai_api_key |-> Str("sk-1"), max_results |-> Absent,
     focus |-> Absent, model |-> Absent]

SummarizeBodies ==
    OddBodies \cup
    {Json(Dict(MkDict(f))) :
        f \in Payloads([query : {Str("tla+"), Str(""), Absent},
                        openai_api_key : ApiKeys,
                        max_results : {Absent, Num(0), Num(2)},
                        focus : {Absent, Str("history")},
                        model : Models], ValidSummarize)}

\* sf_config, built from the fields of f
SfConfigOf(f) ==
    CASE f.sf_config = "absent" -> Absent
      [] f.sf_config = "null"   -> None
      [] f.sf_config = "empty"  -> Dict(EmptyDict)
      [] OTHER -> Dict(MkDict([username |-> f.username, password |-> f.password,
                               security_token |-> f.security_token,
                               client_id |-> f.client_id, client_secret |-> f.client_secret,
                               domain |-> f.domain]))

SfKinds == {"dict", "absent", "null", "empty"}
Usernames == {Str("u@x.com"), Str(""), Str(" "), Absent}
Passwords == {Str("pw"), Str(""), Absent}
Tokens == {Absent, Str("tok")}
ClientIds == {Absent, Str("cid")}
ClientSecrets == {Absent, Str("csecret")}
Domains == {Absent, Str("test")}

ValidTest ==
    [sf_config |-> "dict", username |-> Str("u@x.com"), password |-> Str("pw"),
     security_token |-> Absent, client_id |-> Absent, client_secret |-> Absent,
     domain |-> Absent]

TestBodies ==
    OddBodies \cup
    {Json(Dict(MkDict([sf_config |-> SfConfigOf(f)]))) :
        f \in Payloads([sf_config : SfKinds, username : Usernames, password : Passwords,
                        security_token : Tokens, client_id : ClientIds,
                        client_secret : ClientSecrets, domain : Domains], ValidTest)}

ValidQuery == [soql |-> Str("SELECT Id FROM Account")] @@ ValidTest

\* the bodies of a caller that resupplies the token of the OAuth exchange
AccessToken == Str("00Dxx!token")
InstanceUrl == Str("https://x.my.salesforce.com")
TokenBodies ==
    {Json(Dict([soql |-> Str("SELECT Id FROM Account"),
                accessToken |-> AccessToken, instanceUrl |-> InstanceUrl])),
     Json(Dict([soql |-> Str("SELECT Id FROM Account"),
                accessToken |-> AccessToken, instanceUrl |-> InstanceUrl,
                sf_config |-> Dict([username |-> Str("u@x.com"), password |-> Str("pw")])]))}

QueryBodies ==
    OddBodies \cup TokenBodies \cup
    {Json(Dict(MkDict([soql |-> f.soql, sf_config |-> SfConfigOf(f)]))) :
        f \in Payloads([soql : {Str("SELECT Id FROM Account"), Str(""), Absent},
                        sf_config : SfKinds, username : Usernames, password : Passwords,
                        security_token : Tokens, client_id : ClientIds,
                        client_secret : ClientSecrets, domain : Domains], ValidQuery)}

ObjectTypes == {Str("Account"), Str(""), Absent}
RecordFields == {Dict([Name |-> Str("Acme")]), Dict(EmptyDict), Absent}
RecordIds == {Str("001"), Str(""), Absent}

ValidCreate ==
    [object_type |-> Str("Account"), fields |-> Dict([Name |-> Str("Acme")])] @@ ValidTest

CreateBodies ==
    OddBodies \cup
    {Json(Dict(MkDict([object_type |-> f.object_type, fields |-> f.fields,
                       sf_config |-> SfConfigOf(f)]))) :
        f \in Payloads([object_type : ObjectTypes, fields : RecordFields,
                        sf_config : SfKinds, username : Usernames, password : Passwords,
                        security_token : Tokens, client_id : ClientIds,
                        client_secret : ClientSecrets, domain : Domains], ValidCreate)}

ValidUpdate ==
    [object_type |-> Str("Account"), record_id |-> Str("001"),
     fields |-> Dict([Name |-> Str("Acme")])] @@ ValidTest

UpdateBodies ==
    OddBodies \cup
    {Json(Dict(MkDict([object_type |-> f.object_type, record_id |-> f.record_id,
                       fields |-> f.fields, sf_config |-> SfConfigOf(f)]))) :
        f \in Payloads([object_type : ObjectTypes, record_id : RecordIds,
                        fields : RecordFields,
                        sf_config : SfKinds, username : Usernames, password : Passwords,
                        security_token : Tokens, client_id : ClientIds,
                        client_secret : ClientSecrets, domain : Domains], ValidUpdate)}

ValidAction ==
    [action_name |-> Str("Escalate"), action_params |-> Absent, record_id |-> Absent]
    @@ ValidTest

ActionBodies ==
    OddBodies \cup
    {Json(Dict(MkDict([action_name |-> f.action_name, action_params |-> f.action_params,
                       record_id |-> f.record_id, sf_config |-> SfConfigOf(f)]))) :
        f \in Payloads([action_name : {Str("Escalate"), Str(""), Absent},
                        action_params : {Absent, Dict([priority |-> Str("high")])},
                        record_id : {Absent, Str("001")},
                        sf_config : SfKinds, username : Usernames, password : Passwords,
                        security_token : Tokens, client_id : ClientIds,
                        client_secret : ClientSecrets, domain : Domains], ValidAction)}

-----------------------------------------------------------------------------
(* The OAuth exchange flow, from section 4.5 of the specification *)

Callers == {"alice", "bob"}

\* what a caller supplies to /crm/authorize
ClientCredentials ==
    {[clientId |-> "id1", clientSecret |-> "secret1", domain |-> "login"],
     [clientId |-> "id2", clientSecret |-> "secret2", domain |-> "test"],
     [clientId |-> "id1", clientSecret |-> "secret1", domain |-> "eu"]}

\* the provider's host: two recognised domains, production for any other
ProviderHost(domain) ==
    IF domain = "test" THEN "test.salesforce.com" ELSE "login.salesforce.com"

\* the host of the token endpoint, from the domain the session holds
TokenHost(stored) ==
    IF \E p \in stored : ProviderHost(p.domain) = "test.salesforce.com"
    THEN "test.salesforce.com" ELSE "login.salesforce.com"

\* the redirect URL the authorize step returns
AuthorizeUrl(cred) ==
    [host |-> ProviderHost(cred.domain), path |-> "/services/oauth2/authorize",
     response_type |-> "code", client_id |-> cred.clientId,
     scope |-> "api refresh_token", redirect_uri |-> "/crm/callback"]

\* the query string of /crm/callback: a code, or an error with its description
CallbackParams ==
    {[code |-> "code1", error |-> "", error_description |-> ""],
     [code |-> "", error |-> "access_denied", error_description |-> "user denied"]}

\* what the token endpoint answers
TokenAnswers ==
    {[status |-> 200, parseable |-> TRUE, error_description |-> "",
      body |-> "{access_token, instance_url, refresh_token}"],
     [status |-> 400, parseable |-> TRUE, error_description |-> "expired authorization code",
      body |-> "{error, error_description}"],
     [status |-> 502, parseable |-> FALSE, error_description |-> "",
      body |-> "Bad Gateway"]}

NoCallback == [rid |-> 0, code |-> "", pending |-> {}]

\* a variant of Pending for a store that is not keyed by caller
PendingOfAnyone(store, caller) == store

\* the authorization pending for a caller
Pending(store, caller) == {p \in store : p.caller = caller}

\* the authorize step: the caller's credentials replace what the session held
StoreAnyway(store, caller, cred) ==
    store \cup {[caller |-> caller, clientId |-> cred.clientId,
                  clientSecret |-> cred.clientSecret, domain |-> cred.domain]}
Store(store, caller, cred) ==
    (store \ Pending(store, caller))
    \cup {[caller |-> caller, clientId |-> cred.clientId,
            clientSecret |-> cred.clientSecret, domain |-> cred.domain]}

\* the session is cleared
Clear(store, caller) == store \ Pending(store, caller)

FailureView(message) == [kind |-> "failure", message |-> message, url |-> "", tokens |-> ""]
SuccessView(tokens) == [kind |-> "success", message |-> "", url |-> "", tokens |-> tokens]
RedirectView(url) == [kind |-> "redirect", message |-> "", url |-> url, tokens |-> ""]

SessionExpired == "Session expired. Please try connecting again."

\* a variant of crm_callback that exchanges the code whatever the session holds
crm_callback_unchecked(stored, params) ==
    IF params.error # ""
    THEN [exchange |-> FALSE, view |-> FailureView(params.error_description)]
    ELSE [exchange |-> TRUE, view |-> FailureView("")]

\* the first half of the callback: the provider's error is rendered; with a
\* code the stored credentials are retrieved and the code is exchanged
crm_callback(stored, params) ==
    IF params.error # ""
    THEN [exchange |-> FALSE, view |-> FailureView(params.error_description)]
    ELSE IF stored = {}
    THEN [exchange |-> FALSE, view |-> FailureView(SessionExpired)]
    ELSE [exchange |-> TRUE, view |-> FailureView("")]

\* the second half: the answer of the token endpoint is rendered
crm_callback_view(answer) ==
    IF answer.status = 200 THEN SuccessView(answer.body)
    ELSE IF answer.parseable THEN FailureView(answer.error_description)
    ELSE FailureView(answer.body)

-----------------------------------------------------------------------------
(* The state machine *)

NoRequest == [endpoint |-> "", body |-> Json(None)]
NoReply == [status |-> 0, body |-> [success |-> FALSE]]

Init ==
    /\ pc = "idle"
    /\ request = NoRequest
    /\ env = DefaultEnv
    /\ reply = NoReply
    /\ calls = <<>>
    /\ invoked = <<>>
    /\ caught = FALSE
    /\ unhandled = FALSE
    /\ avail \in [openai : BOOLEAN, ddgs : BOOLEAN, salesforce : BOOLEAN]
    /\ email_plugin \in {EmailPlugin(Str("smtp.gmail.com"), Num(587), None, None),
                         EmailPlugin(Str("smtp.gmail.com"), Num(587), Str("env_user"), Str("env_pass"))}
    /\ logs = <<>>
    /\ session = {}
    /\ inflight = [c \in Callers |-> NoCallback]
    /\ views = <<>>
    /\ exchanges = <<>>

\* a handler answers the request
AnswerLogging(endpoint, body, e, r0, records) ==
    \E r \in {r0} :
    /\ Canonical(e, r.calls)
    /\ pc' = "done"
    /\ request' = [endpoint |-> endpoint, body |-> body]
    /\ env' = e
    /\ reply' = [status |-> r.status, body |-> r.body]
    /\ calls' = r.calls
    /\ invoked' = r.invoked
    /\ caught' = r.caught
    /\ unhandled' = r.unhandled
    /\ logs' = records
    /\ UNCHANGED <<avail, email_plugin>>
    /\ UNCHANGED oauthvars

Answer(endpoint, body, e, r0) == AnswerLogging(endpoint, body, e, r0, <<>>)

\* a plugin method called directly answers its caller
Result(method, args, e, r0) ==
    \E r \in {r0} :
    /\ Canonical(e, r.calls)
    /\ pc' = "done"
    /\ request' = [endpoint |-> method, body |-> Json(Dict(args))]
    /\ env' = e
    /\ reply' = NoReply
    /\ calls' = r.calls
    /\ invoked' = <<Invocation(method, args, r.val)>>
    /\ caught' = FALSE
    /\ unhandled' = r.raised
    /\ logs' = <<>>
    /\ UNCHANGED <<avail, email_plugin>>
    /\ UNCHANGED oauthvars

\* a variant of SendEmail whose plugin keeps the credentials of the request
SendEmailKeepingCredentials ==
    /\ pc = "idle"
    /\ \E body \in EmailBodies :
       \E e \in ScriptsFor(send_email(email_plugin, body, DefaultEnv), SmtpScripts) :
       \E r \in {send_email(email_plugin, body, e)} :
        /\ Canonical(e, r.calls)
        /\ pc' = "done"
        /\ request' = [endpoint |-> "/api/email/send", body |-> body]
        /\ env' = e
        /\ reply' = [status |-> r.status, body |-> r.body]
        /\ calls' = r.calls
        /\ invoked' = r.invoked
        /\ caught' = r.caught
        /\ unhandled' = r.unhandled
        /\ logs' = <<>>
        /\ UNCHANGED oauthvars
        /\ avail' = avail
        /\ email_plugin' =
              IF r.invoked = <<>> THEN email_plugin
              ELSE LET c == r.invoked[1].args.smtp_config
                   IN  EmailPlugin(DictGet(c, "smtp_server"), DictGet(c, "smtp_port"),
                                   DictGet(c, "smtp_username"), DictGet(c, "smtp_password"))

SendEmail ==
    /\ pc = "idle"
    /\ \E body \in EmailBodies :
       \E e \in ScriptsFor(send_email(email_plugin, body, DefaultEnv), SmtpScripts) :
        Answer("/api/email/send", body, e, send_email(email_plugin, body, e))

CallSendEmail ==
    /\ pc = "idle"
    /\ \E to_email \in {Str(ToEmail)}, config \in EmailConfigs, is_html \in {Bool(FALSE)},
          e \in SmtpScripts :
        LET args == [to_email |-> to_email, subject |-> Str("hi"), body |-> Str("hello"),
                     smtp_config |-> config, is_html |-> is_html]
        IN  Result("EmailPlugin.send_email", args, e,
                   EmailPlugin_send_email(email_plugin, args.to_email, args.subject,
                                          args.body, args.smtp_config, args.is_html, e))

\* the arguments of the direct calls of the other plugin methods: what the
\* handlers pass, and what they never pass (None, an empty text, no dict)
TextArgs == {Str("tla+"), Str(""), None}
KeyArgs == {Str("sk-1"), Str(""), None}
ModelArgs == {Str("gpt-5-nano"), Str("gpt-4o")}
SfConfigArgs ==
    {None, Str("x"), Dict(EmptyDict),
     Dict([username |-> Str("u@x.com"), password |-> Str("pw")])}

CallWriteStory ==
    /\ pc = "idle"
    /\ \E prompt \in TextArgs, api_key \in KeyArgs, model \in ModelArgs :
        LET args == [prompt |-> prompt, api_key |-> api_key, genre |-> None,
                     length |-> Str("medium"), tone |-> None, model |-> model]
        IN  \E e \in ScriptsFor(
                    StoryPlugin_write_story(avail, args.prompt, args.api_key, args.genre,
                        args.length, args.tone, args.model, DefaultEnv),
                    GenerationScripts(DefaultEnv)) :
                Result("StoryPlugin.write_story", args, e,
                       StoryPlugin_write_story(avail, args.prompt, args.api_key, args.genre,
                           args.length, args.tone, args.model, e))

CallContinueStory ==
    /\ pc = "idle"
    /\ \E story \in TextArgs, api_key \in KeyArgs, model \in ModelArgs :
        LET args == [story |-> story, api_key |-> api_key, direction |-> None,
                     length |-> Str("medium"), model |-> model]
        IN  \E e \in ScriptsFor(
                    StoryPlugin_continue_story(avail, args.story, args.api_key,
                        args.direction, args.length, args.model, DefaultEnv),
                    GenerationScripts(DefaultEnv)) :
                Result("StoryPlugin.continue_story", args, e,
                       StoryPlugin_continue_story(avail, args.story, args.api_key,
                           args.direction, args.length, args.model, e))

CallImproveStory ==
    /\ pc = "idle"
    /\ \E story \in TextArgs, api_key \in KeyArgs, model \in ModelArgs :
        LET args == [story |-> story, api_key |-> api_key, focus |-> None,
                     style |-> None, model |-> model]
        IN  \E e \in ScriptsFor(
                    StoryPlugin_improve_story(avail, args.story, args.api_key, args.focus,
                        args.style, args.model, DefaultEnv),
                    GenerationScripts(DefaultEnv)) :
                Result("StoryPlugin.improve_story", args, e,
                       StoryPlugin_improve_story(avail, args.story, args.api_key, args.focus,
                           args.style, args.model, e))

CallSearch ==
    /\ pc = "idle"
    /\ \E query \in TextArgs, max_results \in {Num(0), Num(2), None, Str("2")} :
        LET args == [query |-> query, max_results |-> max_results, region |-> Str("us-en")]
        IN  \E e \in ScriptsFor(
                    WebSearchPlugin_search(avail, args.query, args.max_results, args.region,
                        DefaultEnv),
                    SearchScripts) :
                Result("WebSearchPlugin.search", args, e,
                       WebSearchPlugin_search(avail, args.query, args.max_results,
                           args.region, e))

CallSearchAndSummarize ==
    /\ pc = "idle"
    /\ \E query \in TextArgs, api_key \in KeyArgs :
        LET args == [query |-> query, api_key |-> api_key, max_results |-> Num(2),
                     focus |-> None, model |-> Str("gpt-4o")]
        IN  \E e \in ScriptsFor(
                    WebSearchPlugin_search_and_summarize(avail, args.query, args.api_key,
                        args.max_results, args.focus, args.model, DefaultEnv),
                    SummaryScripts) :
                Result("WebSearchPlugin.search_and_summarize", args, e,
                       WebSearchPlugin_search_and_summarize(avail, args.query, args.api_key,
                           args.max_results, args.focus, args.model, e))

CallQuery ==
    /\ pc = "idle"
    /\ \E soql \in {Str("SELECT Id FROM Account"), Str(""), None}, sf_config \in SfConfigArgs :
        LET args == [soql |-> soql, sf_config |-> sf_config]
        IN  \E e \in ScriptsFor(
                    SalesforcePlugin_query(avail, args.soql, args.sf_config, DefaultEnv),
                    SalesforceScripts) :
                Result("SalesforcePlugin.query", args, e,
                       SalesforcePlugin_query(avail, args.soql, args.sf_config, e))

CallCreateRecord ==
    /\ pc = "idle"
    /\ \E object_type \in {Str("Account"), None},
          fields \in {Dict([Name |-> Str("Acme")]), Dict(EmptyDict), None},
          sf_config \in SfConfigArgs :
        LET args == [object_type |-> object_type, fields |-> fields, sf_config |-> sf_config]
        IN  \E e \in ScriptsFor(
                    SalesforcePlugin_create_record(avail, args.object_type, args.fields,
                        args.sf_config, DefaultEnv),
                    SalesforceScripts) :
                Result("SalesforcePlugin.create_record", args, e,
                       SalesforcePlugin_create_record(avail, args.object_type, args.fields,
                           args.sf_config, e))

CallUpdateRecord ==
    /\ pc = "idle"
    /\ \E object_type \in {Str("Account"), None}, record_id \in {Str("001"), None},
          fields \in {Dict([Name |-> Str("Acme")]), None},
          sf_config \in SfConfigArgs :
        LET args == [object_type |-> object_type, record_id |-> record_id,
                     fields |-> fields, sf_config |-> sf_config]
        IN  \E e \in ScriptsFor(
                    SalesforcePlugin_update_record(avail, args.object_type, args.record_id,
                        args.fields, args.sf_config, DefaultEnv),
                    SalesforceScripts) :
                Result("SalesforcePlugin.update_record", args, e,
                       SalesforcePlugin_update_record(avail, args.object_type,
                           args.record_id, args.fields, args.sf_config, e))

CallExecuteAction ==
    /\ pc = "idle"
    /\ \E action_name \in {Str("Notify"), Str(""), None}, sf_config \in SfConfigArgs :
        LET args == [action_name |-> action_name, action_params |-> Dict(EmptyDict),
                     record_id |-> None, sf_config |-> sf_config]
        IN  \E e \in ScriptsFor(
                    SalesforcePlugin_execute_action(avail, args.action_name,
                        args.action_params, args.record_id, args.sf_config, DefaultEnv),
                    SalesforceScripts) :
                Result("SalesforcePlugin.execute_action", args, e,
                       SalesforcePlugin_execute_action(avail, args.action_name,
                           args.action_params, args.record_id, args.sf_config, e))

WriteStory ==
    /\ pc = "idle"
    /\ \E body \in WriteBodies :
       \E e \in ScriptsFor(write_story(avail, body, DefaultEnv), GenerationScripts(DefaultEnv)) :
        Answer("/api/story/write", body, e, write_story(avail, body, e))

ContinueStory ==
    /\ pc = "idle"
    /\ \E body \in ContinueBodies :
       \E e \in ScriptsFor(continue_story(avail, body, DefaultEnv), GenerationScripts(DefaultEnv)) :
        Answer("/api/story/continue", body, e, continue_story(avail, body, e))

ImproveStory ==
    /\ pc = "idle"
    /\ \E body \in ImproveBodies :
       \E e \in ScriptsFor(improve_story(avail, body, DefaultEnv), GenerationScripts(DefaultEnv)) :
        Answer("/api/story/improve", body, e, improve_story(avail, body, e))

WebSearch ==
    /\ pc = "idle"
    /\ \E body \in SearchBodies :
       \E e \in ScriptsFor(web_search(avail, body, DefaultEnv), SearchScripts) :
        Answer("/api/websearch/search", body, e, web_search(avail, body, e))

WebSearchSummarize ==
    /\ pc = "idle"
    /\ \E body \in SummarizeBodies :
       \E e \in ScriptsFor(web_search_summarize(avail, body, DefaultEnv), SummaryScripts) :
        Answer("/api/websearch/summarize", body, e, web_search_summarize(avail, body, e))

SalesforceTestConnection ==
    /\ pc = "idle"
    /\ \E body \in TestBodies :
       \E e \in ScriptsFor(salesforce_test_connection(avail, body, DefaultEnv), SalesforceScripts) :
        AnswerLogging("/api/salesforce/test-connection", body, e,
                      salesforce_test_connection(avail, body, e),
                      salesforce_test_connection_log(avail, body, e))

SalesforceQuery ==
    /\ pc = "idle"
    /\ \E body \in QueryBodies :
       \E e \in ScriptsFor(salesforce_query(avail, body, DefaultEnv), SalesforceScripts) :
        Answer("/api/salesforce/query", body, e, salesforce_query(avail, body, e))

SalesforceCreate ==
    /\ pc = "idle"
    /\ \E body \in CreateBodies :
       \E e \in ScriptsFor(salesforce_create(avail, body, DefaultEnv), SalesforceScripts) :
        Answer("/api/salesforce/create", body, e, salesforce_create(avail, body, e))

SalesforceUpdate ==
    /\ pc = "idle"
    /\ \E body \in UpdateBodies :
       \E e \in ScriptsFor(salesforce_update(avail, body, DefaultEnv), SalesforceScripts) :
        Answer("/api/salesforce/update", body, e, salesforce_update(avail, body, e))

SalesforceExecuteAction ==
    /\ pc = "idle"
    /\ \E body \in ActionBodies :
       \E e \in ScriptsFor(salesforce_execute_action(avail, body, DefaultEnv), SalesforceScripts) :
        Answer("/api/salesforce/execute-action", body, e,
               salesforce_execute_action(avail, body, e))

\* the reply is delivered; nothing of the request is kept
Finish ==
    /\ pc = "done"
    /\ pc' = "idle"
    /\ request' = NoRequest
    /\ env' = DefaultEnv
    /\ reply' = NoReply
    /\ calls' = <<>>
    /\ invoked' = <<>>
    /\ caught' = FALSE
    /\ unhandled' = FALSE
    /\ logs' = <<>>
    /\ UNCHANGED <<avail, email_plugin>>
    /\ UNCHANGED oauthvars

Next ==
    \/ SendEmail
    \/ WriteStory
    \/ ContinueStory
    \/ ImproveStory
    \/ WebSearch
    \/ WebSearchSummarize
    \/ SalesforceTestConnection
    \/ SalesforceQuery
    \/ SalesforceCreate
    \/ SalesforceUpdate
    \/ SalesforceExecuteAction
    \/ CallSendEmail
    \/ CallWriteStory
    \/ CallContinueStory
    \/ CallImproveStory
    \/ CallSearch
    \/ CallSearchAndSummarize
    \/ CallQuery
    \/ CallCreateRecord
    \/ CallUpdateRecord
    \/ CallExecuteAction
    \/ Finish

Spec == Init /\ [][Next]_vars

-----------------------------------------------------------------------------
(* The OAuth exchange flow as a state machine *)

MaxOAuthRequests == 4

\* the requests that arrived so far
Arrived == Len(views) + Cardinality({c \in Callers : inflight[c] # NoCallback})

View(rid, caller, endpoint, params, stored, view) ==
    [rid |-> rid, caller |-> caller, endpoint |-> endpoint, params |-> params,
     stored |-> stored, view |-> view]

OAuthInit ==
    /\ Init
    /\ avail = [openai |-> TRUE, ddgs |-> TRUE, salesforce |-> TRUE]
    /\ email_plugin = EmailPlugin(Str("smtp.gmail.com"), Num(587), None, None)

\* POST /crm/authorize
Authorize ==
    \E c \in Callers, cred \in ClientCredentials :
        /\ inflight[c] = NoCallback
        /\ Arrived < MaxOAuthRequests
        /\ session' = Store(session, c, cred)
        /\ views' = Append(views, View(Arrived + 1, c, "/crm/authorize", cred,
                                       Pending(session, c), RedirectView(AuthorizeUrl(cred))))
        /\ UNCHANGED <<inflight, exchanges>>
        /\ UNCHANGED appvars

\* GET /crm/callback, up to the request sent to the token endpoint
CallbackBegin ==
    \E c \in Callers, params \in CallbackParams :
    \E r \in {crm_callback(Pending(session, c), params)} :
        /\ inflight[c] = NoCallback
        /\ Arrived < MaxOAuthRequests
        /\ IF r.exchange
           THEN /\ exchanges' =
                     Append(exchanges,
                            [rid |-> Arrived + 1, caller |-> c, code |-> params.code,
                             pending |-> Pending(session, c),
                             host |-> TokenHost(Pending(session, c))])
                /\ inflight' = [inflight EXCEPT ![c] =
                                    [rid |-> Arrived + 1, code |-> params.code,
                                     pending |-> Pending(session, c)]]
                /\ UNCHANGED <<session, views>>
           ELSE /\ views' = Append(views, View(Arrived + 1, c, "/crm/callback", params,
                                               Pending(session, c), r.view))
                /\ session' = Clear(session, c)
                /\ UNCHANGED <<inflight, exchanges>>
        /\ UNCHANGED appvars

\* GET /crm/callback, from the answer of the token endpoint on
CallbackEnd ==
    \E c \in Callers, answer \in TokenAnswers :
        /\ inflight[c] # NoCallback
        /\ views' = Append(views,
                           View(inflight[c].rid, c, "/crm/callback",
                                [code |-> inflight[c].code, error |-> "", error_description |-> ""],
                                inflight[c].pending, crm_callback_view(answer)))
        /\ session' = Clear(session, c)
        /\ inflight' = [inflight EXCEPT ![c] = NoCallback]
        /\ UNCHANGED exchanges
        /\ UNCHANGED appvars

OAuthNext ==
    \/ Authorize
    \/ CallbackBegin
    \/ CallbackEnd

OAuthSpec == OAuthInit /\ [][OAuthNext]_vars

-----------------------------------------------------------------------------
(* The properties *)

Done == pc = "done"

\* the ten endpoints that dispatch to a plugin method
DispatchEndpoints ==
    {"/api/email/send", "/api/story/write", "/api/story/continue", "/api/story/improve",
     "/api/websearch/search", "/api/websearch/summarize", "/api/salesforce/query",
     "/api/salesforce/create", "/api/salesforce/update", "/api/salesforce/execute-action"}

PostEndpoints == DispatchEndpoints \cup {"/api/salesforce/test-connection"}

\* the top-level fields a handler requires (the API key of the generation
\* endpoints is their credential)
RequiredFields(endpoint) ==
    CASE endpoint = "/api/email/send" -> {"to_email", "subject", "body"}
      [] endpoint = "/api/story/write" -> {"prompt", "openai_api_key"}
      [] endpoint = "/api/story/continue" -> {"story", "openai_api_key"}
      [] endpoint = "/api/story/improve" -> {"story", "openai_api_key"}
      [] endpoint = "/api/websearch/search" -> {"query"}
      [] endpoint = "/api/websearch/summarize" -> {"query", "openai_api_key"}
      [] endpoint = "/api/salesforce/query" -> {"soql"}
      [] endpoint = "/api/salesforce/create" -> {"object_type", "fields"}
      [] endpoint = "/api/salesforce/update" -> {"object_type", "record_id", "fields"}
      [] endpoint = "/api/salesforce/execute-action" -> {"action_name"}
      [] OTHER -> {}

\* the credential sub-object a handler requires ("" when it requires none)
CredentialObject(endpoint) ==
    CASE endpoint = "/api/email/send" -> "smtp_config"
      [] endpoint \in {"/api/salesforce/query", "/api/salesforce/create",
                       "/api/salesforce/update", "/api/salesforce/execute-action"} -> "sf_config"
      [] OTHER -> ""

\* the fields of the credential sub-object a handler requires
CredentialFields(endpoint) ==
    CASE endpoint = "/api/email/send" ->
            {"smtp_server", "smtp_port", "smtp_username", "smtp_password"}
      [] endpoint \in {"/api/salesforce/query", "/api/salesforce/create",
                       "/api/salesforce/update", "/api/salesforce/execute-action"} ->
            {"username", "password"}
      [] OTHER -> {}

\* the request carries a JSON object
IsObject == ~request.body.malformed /\ request.body.json.t = "dict"

Payload == request.body.json.v

LacksTopLevel == \E f \in RequiredFields(request.endpoint) : f \notin DOMAIN Payload

LacksCredentialObject ==
    /\ CredentialObject(request.endpoint) # ""
    /\ CredentialObject(request.endpoint) \notin DOMAIN Payload

LacksCredentialField ==
    /\ CredentialObject(request.endpoint) \in DOMAIN Payload
    /\ Payload[CredentialObject(request.endpoint)].t = "dict"
    /\ \E f \in CredentialFields(request.endpoint) :
          f \notin DOMAIN Payload[CredentialObject(request.endpoint)].v

RequiredArgs(method) ==
    CASE method = "EmailPlugin.send_email" -> {"to_email", "subject", "body"}
      [] method = "StoryPlugin.write_story" -> {"prompt"}
      [] method = "StoryPlugin.continue_story" -> {"story"}
      [] method = "StoryPlugin.improve_story" -> {"story"}
      [] method = "WebSearchPlugin.search" -> {"query"}
      [] method = "WebSearchPlugin.search_and_summarize" -> {"query"}
      [] method = "SalesforcePlugin.query" -> {"soql"}
      [] method = "SalesforcePlugin.create_record" -> {"object_type", "fields"}
      [] method = "SalesforcePlugin.update_record" -> {"object_type", "record_id", "fields"}
      [] method = "SalesforcePlugin.execute_action" -> {"action_name"}
      [] OTHER -> {}

NonEmpty(x) == x \notin {None, Str(""), Dict(EmptyDict), List(<<>>)}

\* C2: whenever a route handler invokes a plugin method, every required field
\* of the operation is present and non-empty in the arguments it passes (no
\* empty to_email, subject, body, prompt, story, query, soql, object_type,
\* record_id, fields or action_name reaches a plugin).
C2_DispatchedFieldsNonEmpty ==
    (Done /\ request.endpoint \in DispatchEndpoints)
    => \A i \in 1..Len(invoked) :
          \A f \in RequiredArgs(invoked[i].method) : NonEmpty(invoked[i].args[f])

\* an operation of the SMTP session was issued and succeeded
Issued(op) == \E i \in 1..Len(calls) : calls[i].op = op /\ calls[i].ok

\* an operation issued on an external service raised
SomeCallRaised == \E i \in 1..Len(calls) : ~calls[i].ok

\* C3: on every POST plugin endpoint the status is 200 exactly when the body
\* has success = true; on the dispatching endpoints that body is the plugin's
\* result unchanged; a mail send whose login and send_message succeed is
\* answered 200 with message 'Email sent successfully to <to_email>'.
C3_StatusMatchesSuccess ==
    (Done /\ request.endpoint \in PostEndpoints)
    => /\ (reply.status = 200) <=> reply.body.success
       /\ (request.endpoint \in DispatchEndpoints /\ reply.body.success)
          => (Len(invoked) = 1 /\ reply.body = invoked[1].result)
       /\ (request.endpoint = "/api/email/send" /\ Issued("login") /\ Issued("send_message"))
          => /\ reply.status = 200
             /\ reply.body = [success |-> TRUE,
                              message |-> "Email sent successfully to "
                                          \o PyStr(Payload["to_email"])]

\* C3, its case: a mail is sent and the handler answers 200 with the message
C3_Witness ==
    /\ Done
    /\ request.endpoint = "/api/email/send"
    /\ Issued("send_message")
    /\ reply.status = 200
    /\ reply.body.message = "Email sent successfully to a@b.com"

\* the result of a plugin method is classified as an authentication failure
AuthClassified(result) ==
    "error_code" \in DOMAIN result /\ result.error_code = "AUTH_FAILED"

\* C4: when the plugin's result is an authentication failure (error_code
\* 'AUTH_FAILED') the handler answers 401; 500 is answered only for failures
\* that are not authentication failures.
C4_AuthFailureIs401 ==
    (Done /\ request.endpoint \in DispatchEndpoints /\ Len(invoked) = 1)
    => /\ AuthClassified(invoked[1].result) => reply.status = 401
       /\ reply.status = 500 => ~AuthClassified(invoked[1].result)

\* the body {success: false, error: <text>} of a failure
IsFailureBody(body) ==
    /\ body.success = FALSE
    /\ "error" \in DOMAIN body
    /\ body.error # ""

Setting(self, smtp_config, field) ==
    IF Truthy(smtp_config) THEN DictGet(smtp_config, field) ELSE self[field]

\* C6: EmailPlugin.send_email opens no SMTP connection when any of server,
\* port, username, password is absent or empty: it returns success = false
\* with 'SMTP credentials not provided' and issues no operation.
C6_NoConnectionWithoutCredentials ==
    Done =>
    \A i \in 1..Len(invoked) :
        (/\ invoked[i].method = "EmailPlugin.send_email"
         /\ \E f \in {"smtp_server", "smtp_port", "smtp_username", "smtp_password"} :
               Setting(email_plugin, invoked[i].args.smtp_config, f) \in {None, Str("")})
        => /\ calls = <<>>
           /\ invoked[i].result = [success |-> FALSE, error |-> "SMTP credentials not provided"]

\* the login was rejected with an SMTPAuthenticationError
LoginRejected ==
    /\ \E i \in 1..Len(calls) : calls[i].op = "login" /\ ~calls[i].ok
    /\ env.login.exc.type = "SMTPAuthenticationError"

\* the text carries '535', '534' or, in any case, 'authentication failed'
MultiFactorText(msg) ==
    \E k \in 1..Len(msg) :
        \/ msg[k] \in {"535", "534"}
        \/ /\ k < Len(msg)
           /\ msg[k] \in {"authentication", "Authentication", "AUTHENTICATION"}
           /\ msg[k + 1] \in {"failed", "Failed", "FAILED"}

\* C7: when the login is rejected with an authentication error, send_email
\* returns success = false with error_code 'AUTH_FAILED'; the result carries
\* a non-empty helpful_links map when the text of the error holds '535', '534'
\* or (case-insensitively) 'authentication failed', and no helpful_links
\* otherwise.
C7_AuthFailureClassified ==
    Done =>
    \A i \in 1..Len(invoked) :
        (invoked[i].method = "EmailPlugin.send_email" /\ LoginRejected)
        => /\ invoked[i].result.success = FALSE
           /\ AuthClassified(invoked[i].result)
           /\ IF MultiFactorText(env.login.exc.msg)
              THEN /\ "helpful_links" \in DOMAIN invoked[i].result
                   /\ DOMAIN invoked[i].result.helpful_links # {}
              ELSE "helpful_links" \notin DOMAIN invoked[i].result

\* C7, its case: a login rejected with '454 Authentication Failed' is
\* answered with the links
C7_Witness ==
    /\ Done
    /\ Len(invoked) = 1
    /\ invoked[1].method = "EmailPlugin.send_email"
    /\ LoginRejected
    /\ env.login.exc.msg = <<"454", "Authentication", "Failed">>
    /\ "helpful_links" \in DOMAIN invoked[1].result

\* the place of an operation in an SMTP session
SmtpRank(op) ==
    CASE op = "connect" -> 1
      [] op = "starttls" -> 2
      [] op = "login" -> 3
      [] op = "send_message" -> 4
      [] op = "close" -> 5
      [] OTHER -> 0

\* C8: within one send_email call the SMTP operations occur in the order
\* connect, starttls, login, send_message, close, each at most once and none
\* before the one it follows; send_message is issued only after a login that
\* succeeded; a connection that was opened is closed by the last operation
\* of the call, on every path.
C8_SmtpOrder ==
    (Done /\ request.endpoint \in {"/api/email/send", "EmailPlugin.send_email"})
    => /\ \A i \in 1..Len(calls) : SmtpRank(calls[i].op) # 0
       /\ \A i, j \in 1..Len(calls) :
             i < j => SmtpRank(calls[i].op) < SmtpRank(calls[j].op)
       /\ \A i \in 1..Len(calls) :
             SmtpRank(calls[i].op) \in 2..4
             => /\ i > 1
                /\ SmtpRank(calls[i - 1].op) = SmtpRank(calls[i].op) - 1
                /\ calls[i - 1].ok
       /\ Issued("connect") <=> (calls # <<>> /\ calls[Len(calls)].op = "close")

\* C8, its case: a login is rejected, no message is sent, the connection is
\* closed
C8_Witness ==
    /\ Done
    /\ request.endpoint = "EmailPlugin.send_email"
    /\ Len(calls) = 4
    /\ calls[3].op = "login"
    /\ ~calls[3].ok
    /\ calls[4].op = "close"

\* the client of the generation API was constructed or a generation requested
GenerationIssued == \E i \in 1..Len(calls) : calls[i].op \in {"openai_client", "chat_create"}

\* C9: in search_and_summarize the client of the generation API is constructed
\* and a generation requested only after a search that returned success = true
\* with at least one result; when the search fails or yields no result the
\* method returns a failure and issues neither.
C9_GenerationNeedsResults ==
    (Done /\ Len(invoked) = 1 /\ invoked[1].method = "WebSearchPlugin.search_and_summarize")
    => LET a == invoked[1].args
           search == WebSearchPlugin_search(avail, a.query, a.max_results, Str("us-en"), env).val
           found == /\ search.success
                    /\ Len(search.results) >= 1
       IN  /\ GenerationIssued => found
           /\ \A i \in 1..Len(calls) :
                 calls[i].op \in {"openai_client", "chat_create"}
                 => \E j, k \in 1..(i - 1) :
                       /\ j < k
                       /\ calls[j].op = "ddgs_text" /\ calls[j].ok
                       /\ calls[k].op = "consumed" /\ calls[k].args[1] >= 1
           /\ ~found => (~GenerationIssued /\ invoked[1].result.success = FALSE)

\* C9, its case: the provider answers and yields nothing; the method fails
\* and the generation API is not touched
C9_Witness ==
    /\ Done
    /\ Len(invoked) = 1
    /\ invoked[1].method = "WebSearchPlugin.search_and_summarize"
    /\ \E k \in 1..Len(calls) : calls[k].op = "consumed" /\ calls[k].args[1] = 0
    /\ ~GenerationIssued
    /\ invoked[1].result.success = FALSE

\* C10: when the provider's call succeeds and yields no item, search returns
\* success = false with count 0, an empty results list and a non-empty error
\* text; it never returns success = true with an empty list.
C10_ZeroResultsFail ==
    (Done /\ Len(invoked) = 1 /\ invoked[1].method = "WebSearchPlugin.search")
    => /\ (Issued("ddgs_text") /\ env.ddgs_text.items = <<>>)
          => /\ invoked[1].result.success = FALSE
             /\ invoked[1].result.count = 0
             /\ invoked[1].result.results = <<>>
             /\ IsFailureBody(invoked[1].result)
       /\ invoked[1].result.success => invoked[1].result.results # <<>>

\* C10, its case: the provider answered, yielded nothing, and search failed
C10_Witness ==
    /\ Done
    /\ Len(invoked) = 1
    /\ invoked[1].method = "WebSearchPlugin.search"
    /\ Issued("ddgs_text")
    /\ env.ddgs_text.items = <<>>
    /\ invoked[1].result.count = 0

\* the search method was invoked with a whole number as max_results
SearchInvoked ==
    /\ Done
    /\ Len(invoked) = 1
    /\ invoked[1].method = "WebSearchPlugin.search"
    /\ invoked[1].args.max_results.t = "int"

\* the number of items search took from the provider's stream
Consumed == {calls[k].args[1] : k \in {i \in 1..Len(calls) : calls[i].op = "consumed"}}

\* the cap a requested max_results stands for: no list is shorter than empty
Cap(max_results) == IF max_results.v < 0 THEN 0 ELSE max_results.v

\* C11: search never returns more results than the requested max_results,
\* whatever max_results is (0 and negative values, which ask for none,
\* included) and whatever the provider's stream yields, and it takes no more
\* items from the stream than that.
C11_NeverMoreThanRequested ==
    SearchInvoked
    => /\ invoked[1].result.success
          => Len(invoked[1].result.results) <= Cap(invoked[1].args.max_results)
       /\ \A n \in Consumed : n <= Cap(invoked[1].args.max_results)

\* C12: in every successful search result the i-th entry has rank i and the
\* title, url and snippet of the i-th item the provider yielded, and count is
\* the length of the results list.
C12_RanksFollowStream ==
    (Done /\ Len(invoked) = 1 /\ invoked[1].method = "WebSearchPlugin.search"
          /\ invoked[1].result.success)
    => LET result == invoked[1].result
           items == env.ddgs_text.items
       IN  /\ result.count = Len(result.results)
           /\ Len(result.results) <= Len(items)
           /\ \A i \in 1..Len(result.results) :
                 /\ result.results[i].rank = i
                 /\ result.results[i].title = items[i].title
                 /\ result.results[i].url = items[i].href
                 /\ result.results[i].snippet = items[i].body

\* C12, its case: a search that returned two results of a stream whose items
\* differ
C12_Witness ==
    /\ Done
    /\ Len(invoked) = 1
    /\ invoked[1].method = "WebSearchPlugin.search"
    /\ invoked[1].result.success
    /\ invoked[1].result.count = 2
    /\ env.ddgs_text.items[1] # env.ddgs_text.items[2]

\* the requests for a summary issued by the handler
SummaryRequests == {i \in 1..Len(calls) : calls[i].op = "chat_create"}

\* the pieces of a prompt before the first result, and those of one result
PromptHead == 5
PromptPerResult == 7

\* C13: when the search of search_and_summarize returned N results, the prompt
\* sent to the generation holds, for i = 1..N in this order, the rank i, the
\* title and the url of the i-th result; the returned sources_count is N and
\* search_results is the list the search returned.
C13_PromptListsResults ==
    (Done /\ Len(invoked) = 1 /\ invoked[1].method = "WebSearchPlugin.search_and_summarize")
    => LET a == invoked[1].args
           search == WebSearchPlugin_search(avail, a.query, a.max_results, Str("us-en"), env).val
           result == invoked[1].result
       IN  /\ \A k \in SummaryRequests :
                LET prompt == calls[k].args[3]
                IN  /\ Len(prompt) >= PromptHead + PromptPerResult * Len(search.results)
                    /\ \A i \in 1..Len(search.results) :
                          LET at == PromptHead + PromptPerResult * (i - 1)
                          IN  /\ prompt[at + 2] = i
                              /\ search.results[i].rank = i
                              /\ prompt[at + 3] = search.results[i].title
                              /\ prompt[at + 5] = search.results[i].url
           /\ result.success
              => /\ SummaryRequests # {}
                 /\ result.sources_count = Len(search.results)
                 /\ result.search_results = search.results

\* C13, its case: a summary of three results, not all alike
C13_Witness ==
    /\ Done
    /\ Len(invoked) = 1
    /\ invoked[1].method = "WebSearchPlugin.search_and_summarize"
    /\ invoked[1].result.success
    /\ invoked[1].result.sources_count = 3
    /\ invoked[1].result.search_results[1].title # invoked[1].result.search_results[3].title

StoryMethods ==
    {"StoryPlugin.write_story", "StoryPlugin.continue_story", "StoryPlugin.improve_story"}

\* the text a successful result of a story method carries
ReturnedText(result) ==
    IF "story" \in DOMAIN result THEN result.story
    ELSE IF "continuation" \in DOMAIN result THEN result.continuation
    ELSE result.improved_story

\* the non-empty output_text segments of one transcript item's content
SegmentsOf(content) ==
    IF content.t # "list" THEN <<>>
    ELSE SelectSeq(content.v, LAMBDA c : c.type = "output_text" /\ c.text # "")

RECURSIVE AssistantSegments(_)
\* the non-empty assistant-authored output_text segments of a transcript, in
\* transcript order
AssistantSegments(items) ==
    IF items = <<>> THEN <<>>
    ELSE (IF Head(items).role = "assistant" THEN SegmentsOf(Head(items).content) ELSE <<>>)
         \o AssistantSegments(Tail(items))

\* the generation was answered by responses.create
AnsweredByResponses ==
    /\ Done
    /\ Len(invoked) = 1
    /\ invoked[1].method \in StoryMethods
    /\ calls # <<>>
    /\ calls[Len(calls)].op = "responses_create"
    /\ calls[Len(calls)].ok

\* C14: when the generation is answered in the structured-transcript shape,
\* the text a successful write, continue or improve returns is the last
\* assistant-authored output_text segment of the transcript, and the string
\* dump of the whole response when the transcript has no such segment.
C14_LastAssistantSegment ==
    (AnsweredByResponses /\ invoked[1].result.success)
    => LET segments == AssistantSegments(env.responses_create.response.input)
       IN  ReturnedText(invoked[1].result)
             = IF segments = <<>> THEN Str(ResponseDump)
               ELSE Str(segments[Len(segments)].text)

\* a story method was invoked
StoryInvoked == Done /\ Len(invoked) = 1 /\ invoked[1].method \in StoryMethods

\* the generation requests of the call, in either request shape
GenerationRequests ==
    {i \in 1..Len(calls) : calls[i].op \in {"responses_create", "chat_create"}}

\* responses.create answered and the extraction of its text raised
ExtractionFailed(i) ==
    /\ calls[i].op = "responses_create"
    /\ calls[i].ok
    /\ ExtractText(env.responses_create.response).raised

\* C15: the generation is a two-stage protocol: a request in the responses
\* shape comes before any in the chat-completions shape; when the extraction
\* of the text from its answer fails, a chat-completions request follows in
\* the same call and no failure is returned because of the extraction; a call
\* issues at most two generation requests.
C15_TwoStageProtocol ==
    StoryInvoked
    => /\ Cardinality(GenerationRequests) <= 2
       /\ \A i, j \in GenerationRequests :
             (calls[i].op = "responses_create" /\ calls[j].op = "chat_create") => i < j
       /\ \A i \in GenerationRequests :
             ExtractionFailed(i)
             => /\ \E j \in GenerationRequests : j > i /\ calls[j].op = "chat_create"
                /\ env.chat_create.ok => invoked[1].result.success

\* the token ceiling of a length category
Ceiling(length) ==
    CASE length = Str("short") -> ShortMaxTokens
      [] length = Str("medium") -> MediumMaxTokens
      [] OTHER -> LongMaxTokens

\* C16: write, continue and improve issue their generation requests under one
\* rule: the token ceiling is one of the three fixed values, the one of the
\* length category when the operation has one, and the temperature is the
\* same fixed value in the three operations.
C16_SameGenerationParameters ==
    StoryInvoked
    => \A i \in 1..Len(calls) :
          calls[i].op = "chat_create"
          => /\ calls[i].args[4] = StoryTemperature
             /\ calls[i].args[5] \in {ShortMaxTokens, MediumMaxTokens, LongMaxTokens}
             /\ "length" \in DOMAIN invoked[1].args
                => calls[i].args[5] = Ceiling(invoked[1].args.length)

PluginMethods ==
    {"EmailPlugin.send_email"} \cup StoryMethods
    \cup {"WebSearchPlugin.search", "WebSearchPlugin.search_and_summarize",
          "SalesforcePlugin.query", "SalesforcePlugin.create_record",
          "SalesforcePlugin.update_record", "SalesforcePlugin.execute_action"}

\* the method was called directly, not by a handler
CalledDirectly == request.endpoint \in PluginMethods

\* C17: no plugin method lets an exception leave it: whatever its arguments
\* and whatever the external services answer, the call returns a result with
\* a boolean success; neither a direct caller nor the except clause of a
\* handler receives an exception from it.
C17_NoExceptionEscapes ==
    (Done /\ invoked # <<>>)
    => /\ Len(invoked) = 1
       /\ invoked[1].method \in PluginMethods
       /\ ~unhandled
       /\ ~caught
       /\ "success" \in DOMAIN invoked[1].result
       /\ invoked[1].result.success \in BOOLEAN

\* C17, its case: a story method called directly whose generation request
\* raised, and which returned a failure
C17_Witness ==
    /\ Done
    /\ CalledDirectly
    /\ invoked[1].method \in StoryMethods
    /\ \E i \in GenerationRequests : ~calls[i].ok
    /\ ~unhandled
    /\ invoked[1].result.success = FALSE

\* a failure carries a non-empty error text and a success carries none
ErrorRule(result) ==
    /\ "success" \in DOMAIN result
    /\ result.success = FALSE => ("error" \in DOMAIN result /\ result.error # "")
    /\ result.success = TRUE => "error" \notin DOMAIN result

\* C18: every result of a plugin method and every response of a POST endpoint
\* with success = false carries a non-empty error text, and none with
\* success = true carries an error field.
C18_FailuresCarryError ==
    Done
    => /\ \A i \in 1..Len(invoked) : ErrorRule(invoked[i].result)
       /\ request.endpoint \in PostEndpoints => ErrorRule(reply.body)

\* C18, its case: a POST endpoint answers with the failure its plugin method
\* returned after an external operation raised
C18_Witness ==
    /\ Done
    /\ request.endpoint \in PostEndpoints
    /\ Len(invoked) = 1
    /\ SomeCallRaised
    /\ reply.body = invoked[1].result
    /\ reply.body.success = FALSE
    /\ reply.body.error # ""

\* the fields of sf_config that hold a secret
SecretFields == {"password", "security_token", "client_id", "client_secret"}

\* the secrets a Salesforce configuration carries
Secrets(sf_config) ==
    {sf_config.v[k] : k \in {f \in SecretFields \cap DOMAIN sf_config.v :
                                sf_config.v[f].t = "str" /\ sf_config.v[f].v # ""}}

\* a piece of a log message shows the secret
Shows(piece, secret) ==
    \/ piece.t = "str" /\ piece.v = secret.v
    \/ /\ piece.t = "dict"
       /\ \E k \in DOMAIN piece.v : piece.v[k].t = "str" /\ piece.v[k].v = secret.v

\* the same configuration with every secret replaced by another one
WithOtherSecrets(sf_config) ==
    Dict([k \in DOMAIN sf_config.v |->
            IF sf_config.v[k] \in Secrets(sf_config) /\ k \in SecretFields
            THEN Str(sf_config.v[k].v \o "-other")
            ELSE sf_config.v[k]])

\* a connection test was answered for a request that carries a configuration
ConnectionTested ==
    /\ Done
    /\ request.endpoint = "/api/salesforce/test-connection"
    /\ IsObject
    /\ "sf_config" \in DOMAIN Payload
    /\ Payload.sf_config.t = "dict"

\* C19: no log record contains a secret the caller supplied (here the
\* Salesforce password, security token, client id and client secret of a
\* connection test), and the log records of a request are those of the
\* request that differs from it only in the values of its secrets.
C19_NoSecretInLogs ==
    ConnectionTested
    => /\ \A i \in 1..Len(logs) : \A p \in 1..Len(logs[i].msg) :
             \A secret \in Secrets(Payload.sf_config) : ~Shows(logs[i].msg[p], secret)
       /\ logs = salesforce_test_connection_log(
                     avail,
                     Json(Dict([sf_config |-> WithOtherSecrets(Payload.sf_config)])),
                     env)

\* the plugin as constructed in a process without SMTP settings
FreshPlugin == EmailPlugin(Str("smtp.gmail.com"), Num(587), None, None)

\* what a POST endpoint answers to a payload, given the answers of the
\* external services and the packages available
ResponseTo(endpoint, body, flags, e) ==
    CASE endpoint = "/api/email/send" -> send_email(FreshPlugin, body, e)
      [] endpoint = "/api/story/write" -> write_story(flags, body, e)
      [] endpoint = "/api/story/continue" -> continue_story(flags, body, e)
      [] endpoint = "/api/story/improve" -> improve_story(flags, body, e)
      [] endpoint = "/api/websearch/search" -> web_search(flags, body, e)
      [] endpoint = "/api/websearch/summarize" -> web_search_summarize(flags, body, e)
      [] endpoint = "/api/salesforce/test-connection" ->
            salesforce_test_connection(flags, body, e)
      [] endpoint = "/api/salesforce/query" -> salesforce_query(flags, body, e)
      [] endpoint = "/api/salesforce/create" -> salesforce_create(flags, body, e)
      [] endpoint = "/api/salesforce/update" -> salesforce_update(flags, body, e)
      [] endpoint = "/api/salesforce/execute-action" ->
            salesforce_execute_action(flags, body, e)

\* a step leaves the plugin singletons and the availability flags as they
\* were, and the reply it produces is the one the payload and the answers of
\* the external services determine
FrameStep ==
    /\ email_plugin' = email_plugin
    /\ avail' = avail
    /\ (pc' = "done" /\ request'.endpoint \in PostEndpoints)
       => LET r == ResponseTo(request'.endpoint, request'.body, avail', env')
          IN  reply' = [status |-> r.status, body |-> r.body]

\* C20: no request changes server state a later request can observe: the
\* plugin singletons hold nothing of any request, and the response to a
\* request depends only on its payload and on what the external services
\* answer.
C20_RequestsLeaveNoState == [][FrameStep]_vars

\* C20, its case: a mail was sent with the credentials of the request by a
\* server whose plugin holds SMTP settings of its own, which it still holds
C20_Witness ==
    /\ Done
    /\ request.endpoint = "/api/email/send"
    /\ reply.status = 200
    /\ email_plugin.smtp_username = Str("env_user")
    /\ Issued("login")

-----------------------------------------------------------------------------
(* The OAuth exchange flow: properties under OAuthSpec *)

\* the callbacks answered that carried an authorization code
CodeCallbacks ==
    {i \in 1..Len(views) : /\ views[i].endpoint = "/crm/callback"
                           /\ views[i].params.error = ""
                           /\ views[i].params.code # ""}

\* the requests for which a token exchange was sent
Exchanged == {exchanges[j].rid : j \in 1..Len(exchanges)}

\* C21: a callback carrying a code that finds no stored client credentials
\* in its caller's session is answered with the session-expired failure, and
\* no token-exchange request is sent for it
C21_NoSessionNoExchange ==
    /\ \A i \in CodeCallbacks :
          views[i].stored = {} =>
              /\ views[i].view = FailureView(SessionExpired)
              /\ views[i].rid \notin Exchanged
    /\ \A c \in Callers : inflight[c] # NoCallback => inflight[c].pending # {}

C21_Witness ==
    \E i \in CodeCallbacks :
        /\ views[i].stored = {}
        /\ views[i].view = FailureView(SessionExpired)
        /\ exchanges = <<>>
        /\ \E j \in 1..Len(views) : views[j].endpoint = "/crm/authorize"

\* the requests of a caller answered so far
ViewsOf(c, endpoint) ==
    {i \in 1..Len(views) : views[i].caller = c /\ views[i].endpoint = endpoint}

\* no authorize step of c was answered after view i and before view j
NoAuthorizeBetween(c, i, j) == \A k \in ViewsOf(c, "/crm/authorize") : k < i \/ k > j

\* C22: the OAuth session is single-use.  Once a callback of a caller has
\* completed, with success or failure, nothing is stored for that caller
\* until the caller authorizes again, so a second callback carrying a code
\* without a new authorize step fails with session expiry; an authorize step
\* replaces what was pending, so a caller never has more than one pending
\* authorization, and it is the one of the latest authorize step
C22_SessionSingleUse ==
    \A c \in Callers :
        /\ Cardinality(Pending(session, c)) <= 1
        /\ \A i \in ViewsOf(c, "/crm/callback") :
              /\ NoAuthorizeBetween(c, i, Len(views)) => Pending(session, c) = {}
              /\ \A j \in CodeCallbacks \cap ViewsOf(c, "/crm/callback") :
                    i < j /\ NoAuthorizeBetween(c, i, j)
                        => views[j].view = FailureView(SessionExpired)
        /\ \A i \in ViewsOf(c, "/crm/authorize") :
              (\A k \in ViewsOf(c, "/crm/callback") : k < i)
                  => \E p \in Pending(session, c) :
                        \E k \in ViewsOf(c, "/crm/authorize") :
                            /\ \A i2 \in ViewsOf(c, "/crm/authorize") : i2 <= k
                            /\ p.clientId = views[k].params.clientId
                            /\ p.clientSecret = views[k].params.clientSecret
                            /\ p.domain = views[k].params.domain

\* authorized twice, connected, and a second callback found the session gone
C22_Witness ==
    /\ Len(views) = 4
    /\ \A i \in 1..4 : views[i].caller = "alice"
    /\ views[1].endpoint = "/crm/authorize"
    /\ views[2].endpoint = "/crm/authorize"
    /\ views[1].params # views[2].params
    /\ views[3].view.kind = "success"
    /\ views[3].stored = Pending(Store({}, "alice", views[2].params), "alice")
    /\ views[4].view = FailureView(SessionExpired)
    /\ session = {}

\* what the session store holds for caller c
StoredFor(store, c) == {p \in store : p.caller = c}

\* the position among the views of the answer to request rid, or the next
\* position when the request is not answered yet
AnsweredAt(rid) ==
    IF \E i \in 1..Len(views) : views[i].rid = rid
    THEN CHOOSE i \in 1..Len(views) : views[i].rid = rid
    ELSE Len(views) + 1

\* the exchange x carries the credentials of its caller's latest authorize step
OwnCredentials(x) ==
    \E k \in 1..Len(views) :
        /\ k < AnsweredAt(x.rid)
        /\ views[k].caller = x.caller
        /\ views[k].endpoint = "/crm/authorize"
        /\ \A k2 \in (k + 1)..(AnsweredAt(x.rid) - 1) :
              ~(views[k2].caller = x.caller /\ views[k2].endpoint = "/crm/authorize")
        /\ x.pending = {[caller |-> x.caller, clientId |-> views[k].params.clientId,
                          clientSecret |-> views[k].params.clientSecret,
                          domain |-> views[k].params.domain]}

\* the step serves a request of caller d
Serves(d) ==
    \/ Len(views') > Len(views) /\ views'[Len(views')].caller = d
    \/ inflight'[d] # inflight[d]

\* a step serving another caller leaves what c has pending as it is
OthersUntouched ==
    \A c \in Callers :
        (~Serves(c) /\ \E d \in Callers \ {c} : Serves(d))
            => /\ StoredFor(session', c) = StoredFor(session, c)
               /\ inflight'[c] = inflight[c]

\* C23: however the authorize and callback requests of two callers
\* interleave, the token exchange of a caller's callback carries exactly the
\* credentials that caller's latest authorize step stored, and a request of
\* one caller never replaces or clears what another caller has pending
C23_SessionsAreSeparate ==
    /\ [](\A j \in 1..Len(exchanges) : OwnCredentials(exchanges[j]))
    /\ [][OthersUntouched]_vars

\* both callers are waiting for the token endpoint at once, each with the
\* credentials of its own authorize step
C23_Witness ==
    /\ inflight["alice"] # NoCallback
    /\ inflight["bob"] # NoCallback
    /\ inflight["alice"].pending # {}
    /\ \A p \in inflight["alice"].pending, q \in inflight["bob"].pending :
          p.clientId # q.clientId
    /\ Len(exchanges) = 2

-----------------------------------------------------------------------------
(* The CRM operations *)

CrmEndpoints ==
    {"/api/salesforce/query", "/api/salesforce/create", "/api/salesforce/update",
     "/api/salesforce/execute-action"}

\* the Salesforce clients constructed while the request was answered
ClientsBuilt == {i \in 1..Len(calls) : calls[i].op = "salesforce"}

\* the request carries both accessToken and instanceUrl
Connected(data) ==
    /\ Truthy(DictGet(data, "accessToken"))
    /\ Truthy(DictGet(data, "instanceUrl"))

\* the failures the handlers answer when sf_config or one of its fields is missing
CredentialMissingTexts ==
    {"Salesforce credentials not provided. Please configure your credentials in the UI.",
     "Missing required Salesforce field: username",
     "Missing required Salesforce field: password"}

\* C24: a CRM operation whose request lacks accessToken or instanceUrl fails
\* without constructing a provider client, with a failure that is none of the
\* other credential-missing failures; and a provider client is constructed
\* from exactly the accessToken and instanceUrl of the request
C24_TokenAndInstanceRequired ==
    (Done /\ request.endpoint \in CrmEndpoints /\ ~request.body.malformed
          /\ request.body.json.t = "dict")
        => LET data == request.body.json
           IN  /\ ~Connected(data) =>
                     /\ ~reply.body.success
                     /\ ClientsBuilt = {}
                     /\ reply.body.error \notin CredentialMissingTexts
               /\ \A i \in ClientsBuilt :
                     calls[i].args = <<[session_id |-> DictGet(data, "accessToken"),
                                        instance_url |-> DictGet(data, "instanceUrl")]>>

\* a query was answered, through the endpoint or by the plugin method
QueryAnswered ==
    /\ Done
    /\ request.endpoint \in {"/api/salesforce/query", "SalesforcePlugin.query"}
    /\ invoked # <<>>
    /\ invoked[1].result.success

\* C25: whatever requests were served before, the result of a successful
\* query carries the records, the total size and the completeness flag of the
\* provider's answer to this query unchanged (an empty list, 0 and true for
\* what the answer leaves out), so that identical queries against unchanged
\* data yield the same total_size, records and done
C25_QueryPassesProviderAnswer ==
    QueryAnswered
        => LET result == invoked[1].result
               answer == env.sf_query.result
           IN  /\ result.total_size = DictGetOr(answer, "totalSize", Num(0))
               /\ result.records = DictGetOr(answer, "records", List(<<>>))
               /\ result.done = DictGetOr(answer, "done", Bool(TRUE))
               /\ result.soql = invoked[1].args.soql
               /\ request.endpoint = "/api/salesforce/query"
                     => /\ reply.status = 200
                        /\ reply.body = result

\* an incomplete result of one record, answered through the endpoint
C25_Witness ==
    /\ QueryAnswered
    /\ request.endpoint = "/api/salesforce/query"
    /\ reply.body.total_size = Num(1)
    /\ reply.body.done = Bool(FALSE)
    /\ reply.body.records = List(<<Str("001")>>)

\* execute_action was invoked, by the endpoint or directly
ActionInvoked ==
    /\ Done
    /\ invoked # <<>>
    /\ invoked[1].method = "SalesforcePlugin.execute_action"

\* the result repeats the action name, the parameters and the record id
Echoes(result, args) ==
    /\ result.success
    /\ result.action_name = args.action_name
    /\ result.params = args.action_params
    /\ result.record_id = args.record_id

\* C26 as claimed: execute_action issues no provider operation for the
\* action, and given a non-empty action name it returns success=true with
\* the action name, the parameters and the record id it was given, whatever
\* the provider answers (the Salesforce package being installed)
C26_EchoWhateverTheProvider ==
    ActionInvoked
        => /\ \A i \in 1..Len(calls) : calls[i].op = "salesforce"
           /\ (Truthy(invoked[1].args.action_name) /\ avail.salesforce)
                 => Echoes(invoked[1].result, invoked[1].args)

\* C26 as amended: execute_action issues no provider operation but the
\* construction of the Salesforce client, once at most; given a non-empty
\* action name it returns success=true, with the action name, the parameters
\* and the record id it was given, exactly when the package is available and
\* the client could be constructed
C26_EchoOnceConnected ==
    ActionInvoked
        => /\ \A i \in 1..Len(calls) : calls[i].op = "salesforce"
           /\ Len(calls) <= 1
           /\ (Truthy(invoked[1].args.action_name) /\ avail.salesforce /\ Issued("salesforce"))
                 => Echoes(invoked[1].result, invoked[1].args)
           /\ invoked[1].result.success
                 => /\ Truthy(invoked[1].args.action_name)
                    /\ avail.salesforce
                    /\ Issued("salesforce")

\* an action with parameters and a record id was acknowledged
C26_Witness ==
    /\ ActionInvoked
    /\ Echoes(invoked[1].result, invoked[1].args)
    /\ invoked[1].args.record_id = Str("001")
    /\ invoked[1].args.action_params # Dict(EmptyDict)
    /\ reply.status = 200

-----------------------------------------------------------------------------
(* The mail endpoint and the repository's test script *)

\* the payload of test_send_email: to_email, subject, body and is_html
TestScriptPayload(data) ==
    /\ data.t = "dict"
    /\ DOMAIN data.v = {"to_email", "subject", "body", "is_html"}
    /\ data.v["to_email"] = Str(ToEmail)
    /\ Truthy(data.v["subject"])
    /\ Truthy(data.v["body"])
    /\ data.v["is_html"].t = "bool"

\* C27: a POST to /api/email/send with the payload of the test script
\* (to_email, subject, body, is_html, no smtp_config) is answered with 200
C27_TestScriptPayloadIs200 ==
    (Done /\ request.endpoint = "/api/email/send" /\ ~request.body.malformed
          /\ TestScriptPayload(request.body.json))
        => reply.status = 200

\* the SMTP connections opened and the logins performed for the request
Connects == {i \in 1..Len(calls) : calls[i].op = "connect"}
Logins == {i \in 1..Len(calls) : calls[i].op = "login"}

\* the plugin was constructed in a process with SMTP settings
EnvConfigured == Truthy(email_plugin.smtp_username) /\ Truthy(email_plugin.smtp_password)

StreamRaised ==
    /\ Done
    /\ Len(invoked) = 1
    /\ invoked[1].method = "WebSearchPlugin.search"
    /\ Issued("ddgs_text")
    /\ env.ddgs_text.ok
    /\ env.ddgs_text.fails
    /\ \/ env.ddgs_text.items = <<>>
       \/ /\ invoked[1].args.max_results.t = "int"
          /\ Len(env.ddgs_text.items) < invoked[1].args.max_results.v

\* C29: when the provider's stream raises after yielding k items, search
\* reports no provider error: for k >= 1 the result is a success with exactly
\* those k results, ranked 1..k, and count k; for k = 0 it is the zero-results
\* failure with an empty results list and count 0.
C29_StreamErrorIsNotReported ==
    StreamRaised
    => LET result == invoked[1].result
           items == env.ddgs_text.items
           k == Len(items)
       IN  IF k >= 1
           THEN /\ result.success
                /\ result.count = k
                /\ result.results = [i \in 1..k |-> FormatResult(items[i], i)]
                /\ "error" \notin DOMAIN result
           ELSE /\ ~result.success
                /\ result.error = ZeroResultsText
                /\ result.results = <<>>
                /\ result.count = 0

\* C29, its cases: the stream raised after one item and after none
C29_Witness ==
    /\ StreamRaised
    /\ Len(env.ddgs_text.items) = 1
    /\ invoked[1].result.success

C29_WitnessNone ==
    /\ StreamRaised
    /\ env.ddgs_text.items = <<>>
    /\ ~invoked[1].result.success

\* ---------------------------------------------------------------------
\* The order of the Salesforce operations

RecordMethods ==
    {"SalesforcePlugin.query", "SalesforcePlugin.create_record",
     "SalesforcePlugin.update_record"}

RecordInvoked ==
    /\ Done
    /\ Len(invoked) = 1
    /\ invoked[1].method \in RecordMethods

\* the positions in calls of the provider operations and of Salesforce(...)
Operations ==
    {i \in 1..Len(calls) : calls[i].op \in {"sf_query", "sf_create", "sf_update"}}
Constructions == {i \in 1..Len(calls) : calls[i].op = "salesforce"}

\* the provider operation of each of the three methods
OwnOperation(method) ==
    CASE method = "SalesforcePlugin.query" -> "sf_query"
      [] method = "SalesforcePlugin.create_record" -> "sf_create"
      [] method = "SalesforcePlugin.update_record" -> "sf_update"

\* an argument the method requires is empty
ArgumentMissing(method, args) ==
    CASE method = "SalesforcePlugin.query" -> ~Truthy(args.soql)
      [] method = "SalesforcePlugin.create_record" ->
            ~Truthy(args.object_type) \/ ~Truthy(args.fields)
      [] method = "SalesforcePlugin.update_record" ->
            ~Truthy(args.object_type) \/ ~Truthy(args.record_id) \/ ~Truthy(args.fields)

\* C30: in query, create_record and update_record the provider operation is
\* issued at most once per call, it is the method's own, and only after
\* Salesforce(...) succeeded in the same call; when Salesforce(...) raises, the
\* result is success=false with 'Failed to connect to Salesforce: <error>' and
\* no operation is issued; with an empty soql, object_type, record_id or
\* fields the method fails before any client is constructed.
C30_OperationFollowsConstruction ==
    RecordInvoked
    => LET method == invoked[1].method
           result == invoked[1].result
       IN  /\ Cardinality(Operations) <= 1
           /\ \A i \in Operations :
                 /\ calls[i].op = OwnOperation(method)
                 /\ \E j \in Constructions : j < i /\ calls[j].ok
           /\ (\E j \in Constructions : ~calls[j].ok)
              => /\ ~result.success
                 /\ result.error = "Failed to connect to Salesforce: "
                                       \o Join(env.salesforce.exc.msg)
                 /\ Operations = {}
           /\ ArgumentMissing(method, invoked[1].args)
              => /\ ~result.success
                 /\ Constructions = {}
                 /\ Operations = {}

\* C30, its cases: an update issued after the client was constructed, and a
\* create_record call whose client construction failed
C30_Witness ==
    /\ RecordInvoked
    /\ invoked[1].method = "SalesforcePlugin.update_record"
    /\ Operations # {}
    /\ invoked[1].result.success

C30_WitnessNoClient ==
    /\ RecordInvoked
    /\ invoked[1].method = "SalesforcePlugin.create_record"
    /\ \E j \in Constructions : ~calls[j].ok
    /\ ~invoked[1].result.success

====
